---- MODULE Spec2Model ----
(***************************************************************************)
(* Model of the xDS control plane of openai-proxy (control-plane/src):     *)
(* the update loop of main (resolver emissions -> fleet state ->           *)
(* Generator -> Reporter), the two watch channels of the Reporter and the  *)
(* per-client ADS streams of Server::stream_aggregated_resources.          *)
(***************************************************************************)
EXTENDS Integers, Sequences, FiniteSets, TLC

(***************************************************************************)
(* Bounds of the model.                                                    *)
(***************************************************************************)
MaxUuid == 3       \* no resolver emission is applied once more versions were minted
MaxRequests == 1   \* initial DiscoveryRequests answered per stream
MaxModels == 2     \* models in the list of the backend whose list varies
MaxPending == 1    \* largest pending value a backend reports while its load is steady
MaxNow == 12       \* last tick of the clock
MaxBuilt == 5      \* clients the pool builds
CapBits == 2       \* bits of the capacity of the pool's cache (16, scaled down)
WeightBits == 8    \* bits of the weight field and of a pending value (32, scaled down)
MantissaBits == 3  \* bits of the significand of an f64 (53, scaled down)
U64Bits == 5       \* bits of a u64 (64, scaled down)

\* the configured upstreams (--upstream), indexed as by enumerate()
Upstreams == {0, 1}
\* the client streams
Streams == {"s1"}

\* Option<T>: None is the empty sequence, Some(x) the sequence of x alone
None == <<>>
Some(x) == <<x>>

TypeCluster == "envoy.config.cluster.v3.Cluster"
TypeRouteConfiguration == "envoy.config.route.v3.RouteConfiguration"
TypeListener == "envoy.config.listener.v3.Listener"
TypeUrls == {TypeCluster, TypeRouteConfiguration, TypeListener}

VARIABLES
    state,      \* main: HashMap<usize, Vec<Endpoint>>, as a function on its keys
    order,      \* iteration order of the HashMap `state` (a sequence of its keys)
    pc,         \* position of the update loop: "recv" or "routes"
    replaced,   \* what state.insert(i, endpoints) replaced in this iteration
    reporter,   \* value held by the two watch channels of the Reporter
    uuid,       \* number of Uuid::new_v4() values minted so far
    stream,     \* per client stream: status and the WatchStreams' seen versions
    sent,       \* per stream: the DiscoveryResponses yielded, in order
    now,        \* Instant::now(), in ticks of the clock
    unfold,     \* per upstream: the state of the stream of Resolver::watch
    fleet,      \* mux: State::backends, per upstream the Backends of its watch
    listed,     \* main.rs: State::endpoints, per endpoint its Models
    exchange,   \* direct proxy: the client request in hand and what became of it
    pool        \* client::Pool: the LRU cache, MRU first, and the clients built

\* the variables of the control plane's loop, Reporter and streams
lbVars == <<state, order, pc, replaced, reporter, uuid, stream, sent>>

\* the variables of the resolver streams
watchVars == <<now, unfold>>

\* the variables of the direct proxy
muxVars == <<fleet, listed, exchange, pool>>

\* the variables the control plane's loop and streams leave alone
aux == <<watchVars, muxVars>>

vars == <<state, order, pc, replaced, reporter, uuid, stream, sent, now, unfold,
          fleet, listed, exchange, pool>>

(***************************************************************************)
(* Generic helpers.                                                        *)
(***************************************************************************)
Last(s) == s[Len(s)]

RECURSIVE Concat(_)
Concat(ss) == IF ss = <<>> THEN <<>> ELSE Head(ss) \o Concat(Tail(ss))

RECURSIVE SeqMax(_)
SeqMax(s) == IF s = <<>> THEN 0
             ELSE LET m == SeqMax(Tail(s)) IN IF Head(s) > m THEN Head(s) ELSE m

RECURSIVE SeqSum(_)
SeqSum(s) == IF s = <<>> THEN 0 ELSE Head(s) + SeqSum(Tail(s))

Range(s) == {s[k] : k \in 1..Len(s)}

\* 2^n
RECURSIVE Pow2(_)
Pow2(n) == IF n = 0 THEN 1 ELSE 2 * Pow2(n - 1)

\* lexicographic "less than" on sequences of integers (Ord for tuples / Vec)
RECURSIVE LexLess(_, _)
LexLess(a, b) ==
    IF b = <<>> THEN FALSE
    ELSE IF a = <<>> THEN TRUE
    ELSE IF Head(a) # Head(b) THEN Head(a) < Head(b)
    ELSE LexLess(Tail(a), Tail(b))

\* slice::sort_unstable / sort_unstable_by_key on a slice of at most 20
\* elements is an insertion sort: elements that compare equal keep their
\* input order.  keys[k] is the key of s[k], a sequence of integers compared
\* lexicographically.
RECURSIVE InsertSorted(_, _)
InsertSorted(sorted, x) ==
    IF sorted = <<>> THEN <<x>>
    ELSE IF LexLess(x[1], Last(sorted)[1])
         THEN Append(InsertSorted(SubSeq(sorted, 1, Len(sorted) - 1), x), Last(sorted))
         ELSE Append(sorted, x)

RECURSIVE SortPairs(_)
SortPairs(pairs) ==
    IF pairs = <<>> THEN <<>>
    ELSE InsertSorted(SortPairs(SubSeq(pairs, 1, Len(pairs) - 1)), Last(pairs))

SortByKey(s, keys) ==
    LET sorted == SortPairs([k \in 1..Len(s) |-> <<keys[k], s[k]>>])
    IN  [k \in 1..Len(s) |-> sorted[k][2]]

(***************************************************************************)
(* Configuration (Args) and the world the resolver observes.               *)
(***************************************************************************)
\* Args.upstream: upstream 0 has no port in its URI, upstream 1 has one
upstream == [i \in Upstreams |->
    IF i = 0 THEN [port |-> None, http2_only |-> FALSE]
             ELSE [port |-> Some(8000), http2_only |-> TRUE]]

route_config_name == "route_config"
metadata_namespace == "ns"

\* schemas::Model: id and pending (running and the flattened extra fields are
\* carried along unchanged and take no part in any decision)
Model(id, pending) == [id |-> id, pending |-> pending]

\* u32::MAX, the largest pending value of schemas::Model and the largest weight
MaxU32 == Pow2(WeightBits) - 1

\* the addresses DNS holds for the host of upstream i (IpAddr, ordered
\* numerically)
Records(i) == IF i = 0 THEN {1, 2} ELSE {1}

\* the pending values a model can carry: absent, or a count
Pendings == {None} \cup {Some(p) : p \in 0..MaxPending}

\* the lists of at most MaxModels models with ids among ids
ModelLists(ids) ==
    UNION {[1..n -> {Model(id, p) : id \in ids, p \in Pendings}] : n \in 0..MaxModels}

\* what the backend at address ip of upstream i answers on /v1/models while
\* its load is steady
Served(i, ip) ==
    IF i = 0 THEN (IF ip = 1 THEN <<Model(1, Some(0))>>
                           ELSE <<Model(1, Some(MaxPending)), Model(2, None)>>)
             ELSE <<Model(2, Some(0)), Model(2, Some(1))>>

\* the outcomes of list_models for the backend at ip of upstream i: any list
\* for the first backend of upstream 0; for the others their steady list, or
\* the empty default when the probe fails (unwrap_or_default)
Probe(i, ip) ==
    IF i = 0 /\ ip = 1 THEN ModelLists({1, 2}) ELSE {<<>>, Served(i, ip)}

\* resolver::Endpoint
Endpoint(ip, models) == [ip |-> ip, models |-> models]

\* sequences without repetition over a set (the order DNS returns records in)
RECURSIVE Orders(_)
Orders(S) ==
    IF S = {} THEN {<<>>}
    ELSE UNION {{<<x>> \o o : o \in Orders(S \ {x})} : x \in S}

\* join_all over the addresses of one lookup: one Endpoint per address
RECURSIVE ProbeAll(_, _)
ProbeAll(i, ips) ==
    IF ips = <<>> THEN {<<>>}
    ELSE {<<Endpoint(Head(ips), m)>> \o rest :
            m \in Probe(i, Head(ips)), rest \in ProbeAll(i, Tail(ips))}

\* Resolver::watch: the snapshots one cycle of upstream i can emit.  A lookup
\* returns some of the records, in any order; a failed lookup gives the
\* empty snapshot.
Watch(i) ==
    UNION {ProbeAll(i, ips) : ips \in UNION {Orders(S) : S \in SUBSET Records(i)}}

\* the snapshots of the cycles in which the lookup returns every record and
\* every backend answers its steady list
Steady(i) ==
    {[k \in 1..Len(ips) |-> Endpoint(ips[k], Served(i, ips[k]))] :
        ips \in Orders(Records(i))}

\* the pending values of a backend that is idle, or stuck with a queue as
\* long as the field can tell
Loads == {None, Some(0), Some(MaxU32)}

\* the lists such a backend can answer
StuckLists ==
    UNION {[1..n -> {Model(id, p) : id \in {1, 2}, p \in Loads}] : n \in 0..MaxModels}

\* the snapshots of the cycles in which the lookup returns every record, the
\* first backend of upstream 0 answers such a list and the others their
\* steady list
Stuck(i) ==
    {[k \in 1..Len(ips) |->
        Endpoint(ips[k], IF i = 0 /\ ips[k] = 1 THEN m ELSE Served(i, ips[k]))] :
        ips \in Orders(Records(i)), m \in StuckLists}

\* the outcomes of self.resolver.lookup_ip(host) for upstream i: an error
\* (None after the match), or the records in some order
lookup_ip(i) == {None} \cup {Some(ips) : ips \in Orders(Records(i))}

\* the outcomes of self.list_models(upstream, ip) for the addresses of
\* upstream i: for each an error (no connection, timeout, a body that does
\* not parse), written None, or the steady list of the backend
list_models(i) ==
    {probes \in [Records(i) -> {None} \cup {Some(Served(i, ip)) : ip \in Records(i)}] :
        \A ip \in Records(i) : probes[ip] \in {None, Some(Served(i, ip))}}

\* Result::unwrap_or_default of the outcome of a probe
ModelsOrDefault(output) == IF output = None THEN <<>> ELSE output[1]

\* Resolver::watch, one cycle: the snapshot emitted when the lookup and the
\* probes end as given (lookup_ip.into_iter().flatten(), then join_all of
\* one probe per address)
WatchCycle(lookup, probes) ==
    LET ips == IF lookup = None THEN <<>> ELSE lookup[1]
    IN  [k \in 1..Len(ips) |-> Endpoint(ips[k], ModelsOrDefault(probes[ips[k]]))]

(***************************************************************************)
(* Generator (control-plane/src/lb/generator.rs).                          *)
(***************************************************************************)
\* Sha224::digest of the formatted string, as a number: injective on the
\* strings of the model, and not monotone in (i, ip)
Sha224(str) == ((str[1] * 8 + str[3]) * 11) % 31

\* format!("{i}:{ip}")
FormatIndexIp(i, ip) == <<i, ":", ip>>

\* the name made of the address alone
cluster_name_of_ip(i, ip) == <<"cluster_", Sha224(FormatIndexIp(0, ip))>>

\* Generator::cluster_name
cluster_name(i, ip) == <<"cluster_", Sha224(FormatIndexIp(i, ip))>>

\* Generator::cluster
port_or_80(u) == IF u.port = None THEN 80 ELSE u.port[1]

cluster(i, u, ip) ==
    [name |-> cluster_name(i, ip),
     cluster_discovery_type |-> "STATIC",
     load_assignment |-> [cluster_name |-> cluster_name(i, ip),
                          endpoints |-> <<<<ip, port_or_80(u)>>>>],
     http2 |-> u.http2_only]

\* the order of cluster names: hex strings of one length compare as their digests
NameKey(name) == <<name[2]>>

\* self.state.get(&i).into_iter().flatten()
StateGet(st, i) == IF i \in DOMAIN st THEN st[i] ELSE <<>>

\* clusters for the endpoints that list a model only
RECURSIVE ClustersFromServing(_, _)
ClustersFromServing(st, i) ==
    IF i \notin Upstreams THEN <<>>
    ELSE LET got == SelectSeq(StateGet(st, i), LAMBDA e : e.models # <<>>)
             endpoints == SortByKey(got, [k \in 1..Len(got) |-> <<got[k].ip>>])
         IN  [k \in 1..Len(endpoints) |-> cluster(i, upstream[i], endpoints[k].ip)]
             \o ClustersFromServing(st, i + 1)

\* (0..self.upstreams.len()).flat_map(..): the clusters of upstream i and of
\* those after it
RECURSIVE ClustersFrom(_, _)
ClustersFrom(st, i) ==
    IF i \notin Upstreams THEN <<>>
    ELSE LET got == StateGet(st, i)
             endpoints == SortByKey(got, [k \in 1..Len(got) |-> <<got[k].ip>>])
         IN  [k \in 1..Len(endpoints) |-> cluster(i, upstream[i], endpoints[k].ip)]
             \o ClustersFrom(st, i + 1)

\* Generator::clusters
clusters(st) ==
    LET all == ClustersFrom(st, 0)
    IN  SortByKey(all, [k \in 1..Len(all) |-> NameKey(all[k].name)])

\* self.state.values().flatten(): the endpoints of the map, upstream by
\* upstream in the map's iteration order
RECURSIVE StateValues(_, _)
StateValues(st, ord) ==
    IF ord = <<>> THEN <<>> ELSE st[Head(ord)] \o StateValues(st, Tail(ord))

\* .flat_map(|endpoint| &endpoint.models)
RECURSIVE ModelsOf(_)
ModelsOf(endpoints) ==
    IF endpoints = <<>> THEN <<>>
    ELSE Head(endpoints).models \o ModelsOf(Tail(endpoints))

\* Generator::route_list_models: the direct response whose body is the
\* serialized schemas::List of every model of the fleet
route_list_models(st, ord) ==
    LET models == ModelsOf(StateValues(st, ord))
        data == SortByKey(models, [k \in 1..Len(models) |-> <<models[k].id>>])
    IN  [match |-> [path |-> "/v1/models", method |-> "GET"],
         action |-> "DirectResponse",
         status |-> 200,
         body |-> [object |-> "list", data |-> data]]

\* a missing pending counted as one waiting request
unwrap_or_one(p) == IF p = None THEN 1 ELSE p[1]

\* model.pending.unwrap_or_default()
unwrap_or_default(p) == IF p = None THEN 0 ELSE p[1]

\* the pending values of the models of one endpoint whose id is model_id
RECURSIVE PendingOf(_, _)
PendingOf(models, model_id) ==
    IF models = <<>> THEN <<>>
    ELSE (IF Head(models).id = model_id
          THEN <<unwrap_or_default(Head(models).pending)>> ELSE <<>>)
         \o PendingOf(Tail(models), model_id)

\* one (i, ip, pending) per model of the endpoint with the id, instead of one
\* per endpoint
RECURSIVE EndpointsServingPerModel(_, _, _)
EndpointsServingPerModel(i, endpoints, model_id) ==
    IF endpoints = <<>> THEN <<>>
    ELSE LET pending == PendingOf(Head(endpoints).models, model_id)
         IN  [k \in 1..Len(pending) |-> <<i, Head(endpoints).ip, <<pending[k]>>>>]
             \o EndpointsServingPerModel(i, Tail(endpoints), model_id)

\* filter_map over the endpoints of upstream i: (i, ip, pending) for each
\* endpoint that lists model_id
RECURSIVE EndpointsServing(_, _, _)
EndpointsServing(i, endpoints, model_id) ==
    IF endpoints = <<>> THEN <<>>
    ELSE LET pending == PendingOf(Head(endpoints).models, model_id)
         IN  (IF pending # <<>> THEN <<<<i, Head(endpoints).ip, pending>>>> ELSE <<>>)
             \o EndpointsServing(i, Tail(endpoints), model_id)

\* self.state.iter().flat_map(..)
RECURSIVE RoutedEndpoints(_, _, _)
RoutedEndpoints(st, ord, model_id) ==
    IF ord = <<>> THEN <<>>
    ELSE EndpointsServing(Head(ord), st[Head(ord)], model_id)
         \o RoutedEndpoints(st, Tail(ord), model_id)

\* Ord of (usize, IpAddr, Vec<u64>)
RoutedKey(e) == <<e[1], e[2]>> \o e[3]

\* the weight field is a UInt32Value: `as _` keeps the low bits of the u64 sum
AsU32(x) == x % (MaxU32 + 1)

\* the terms with pending_max in place of 1 + pending_max
RECURSIVE WeightTermsOfMax(_, _)
WeightTermsOfMax(pending, pending_max) ==
    IF pending = <<>> THEN <<>>
    ELSE <<pending_max \div (1 + Head(pending))>>
         \o WeightTermsOfMax(Tail(pending), pending_max)

\* .map(|pending| (1 + pending_max) / (1 + pending))
RECURSIVE WeightTerms(_, _)
WeightTerms(pending, pending_max) ==
    IF pending = <<>> THEN <<>>
    ELSE <<(1 + pending_max) \div (1 + Head(pending))>>
         \o WeightTerms(Tail(pending), pending_max)

Weight(pending, pending_max) == AsU32(SeqSum(WeightTerms(pending, pending_max)))

\* the entry named with the arguments of cluster_name exchanged
ClusterWeightSwapped(e, pending_max) ==
    [name |-> cluster_name(e[2], e[1]), weight |-> Weight(e[3], pending_max)]

\* route_v3::weighted_cluster::ClusterWeight
ClusterWeight(e, pending_max) ==
    [name |-> cluster_name(e[1], e[2]), weight |-> Weight(e[3], pending_max)]

\* Generator::route_model
route_model(st, ord, model_id) ==
    LET routed == RoutedEndpoints(st, ord, model_id)
        endpoints == SortByKey(routed, [k \in 1..Len(routed) |-> RoutedKey(routed[k])])
        pending_max == SeqMax(Concat([k \in 1..Len(endpoints) |-> endpoints[k][3]]))
    IN  [match |-> [prefix |-> "/",
                    dynamic_metadata |-> [filter |-> metadata_namespace,
                                          path |-> "model",
                                          exact |-> model_id]],
         action |-> "Route",
         weighted_clusters |->
            [k \in 1..Len(endpoints) |-> ClusterWeight(endpoints[k], pending_max)]]

\* the BTreeSet of the model ids of the fleet, ascending
RECURSIVE Ascending(_)
Ascending(S) ==
    IF S = {} THEN <<>>
    ELSE LET m == CHOOSE x \in S : \A y \in S : x <= y
         IN  <<m>> \o Ascending(S \ {m})

ModelIds(st, ord) ==
    LET models == ModelsOf(StateValues(st, ord))
    IN  Ascending({models[k].id : k \in 1..Len(models)})

\* Generator::virtual_host
virtual_host(st, ord) ==
    LET model_ids == ModelIds(st, ord)
    IN  [name |-> "local_service",
         domains |-> <<"*">>,
         routes |-> <<route_list_models(st, ord)>>
                    \o [k \in 1..Len(model_ids) |-> route_model(st, ord, model_ids[k])]]

\* serde_json::to_string(&schemas::List { data }).len(): the byte length of
\* {"object":"list","data":[..]} with one {"object":"model","id":..,
\* "running":..,"pending":..} per model (ids of one digit); an absent load
\* is written null, a present one in decimal
RECURSIVE Digits(_)
Digits(n) == IF n < 10 THEN 1 ELSE 1 + Digits(n \div 10)

JsonLen(p) == IF p = None THEN 4 ELSE Digits(p[1])

RECURSIVE DataLen(_)
DataLen(data) ==
    IF data = <<>> THEN 0
    ELSE 51 + JsonLen(Head(data).pending) + (IF Len(data) > 1 THEN 1 ELSE 0)
         + DataLen(Tail(data))

BodyLen(body) == 27 + DataLen(body.data)

\* misc::envoy::patch_max_direct_response_body_size_bytes: the largest
\* inline body of a DirectResponse route of the configuration
patch_max_direct_response_body_size_bytes(rc) ==
    LET routes == Concat([k \in 1..Len(rc.virtual_hosts) |-> rc.virtual_hosts[k].routes])
        sizes == {BodyLen(routes[k].body) :
                    k \in {j \in 1..Len(routes) : routes[j].action = "DirectResponse"}}
    IN  [rc EXCEPT !.max_direct_response_body_size_bytes =
            IF sizes = {} THEN None ELSE Some(CHOOSE x \in sizes : \A y \in sizes : y <= x)]

\* Generator::route_configuration
route_configuration(st, ord) ==
    patch_max_direct_response_body_size_bytes(
        [name |-> route_config_name,
         virtual_hosts |-> <<virtual_host(st, ord)>>,
         max_direct_response_body_size_bytes |-> None])

(***************************************************************************)
(* Reporter and its two watch channels                                     *)
(* (control-plane/src/aggregated_discovery_service.rs).                    *)
(***************************************************************************)
Channels == {"clusters", "route_configurations"}

\* T::type_url() of the resources of a channel
type_url(ch) == IF ch = "clusters" THEN TypeCluster ELSE TypeRouteConfiguration

\* the version held by a channel value, 0 while nothing was published
VersionOf(held) == IF held = None THEN 0 ELSE held[1].version_info

\* Reporter::send: a new Uuid and a notification only when the channel holds
\* nothing or holds resources that differ from value
Differs(held, value) == held = None \/ held[1].resources # value

\* send without the comparison with the held value
send_always(held, value, minted) ==
    Some([version_info |-> minted + 1, resources |-> value])

send(held, value, minted) ==
    IF Differs(held, value)
    THEN Some([version_info |-> minted + 1, resources |-> value])
    ELSE held

\* the number of Uuids minted after send
Minted(held, value, minted) == IF Differs(held, value) THEN minted + 1 ELSE minted

(***************************************************************************)
(* The update loop of main (control-plane/src/lb.rs).                      *)
(***************************************************************************)
\* an insert that keeps the entry of the key when the new value is empty
InsertKeeping(st, i, endpoints) ==
    [k \in DOMAIN st \cup {i} |->
        IF k = i /\ (endpoints # <<>> \/ i \notin DOMAIN st) THEN endpoints ELSE st[k]]

\* HashMap::insert
Insert(st, i, endpoints) ==
    [k \in DOMAIN st \cup {i} |-> IF k = i THEN endpoints ELSE st[k]]

\* the iteration order after an insert: unchanged for a key already present,
\* any order of the keys once a new key went in (the table may have grown)
OrdersAfterInsert(st, ord, i) ==
    IF i \in DOMAIN st THEN {ord} ELSE Orders(DOMAIN st \cup {i})

\* a loop that ends every open stream with an error when the snapshot it
\* received is empty
UpdateEnding(i, endpoints) ==
    /\ pc = "recv"
    /\ state' = Insert(state, i, endpoints)
    /\ order' \in OrdersAfterInsert(state, order, i)
    /\ replaced' = [i |-> Some(i), old |-> IF i \in DOMAIN state THEN Some(state[i]) ELSE None]
    /\ reporter' = [reporter EXCEPT !.clusters = send(@, clusters(state'), uuid)]
    /\ uuid' = Minted(reporter.clusters, clusters(state'), uuid)
    /\ pc' = "routes"
    /\ stream' = [s \in Streams |->
            IF endpoints = <<>> /\ stream[s].status = "open"
            THEN [stream[s] EXCEPT !.status = "error"] ELSE stream[s]]
    /\ UNCHANGED sent

\* while let Some((i, endpoints)) = stream.next().await:
\* state.insert(i, endpoints); ads_reporter.clusters(generator.clusters()?)?
Update(i, endpoints) ==
    /\ pc = "recv"
    /\ state' = Insert(state, i, endpoints)
    /\ order' \in OrdersAfterInsert(state, order, i)
    /\ replaced' = [i |-> Some(i), old |-> IF i \in DOMAIN state THEN Some(state[i]) ELSE None]
    /\ reporter' = [reporter EXCEPT !.clusters = send(@, clusters(state'), uuid)]
    /\ uuid' = Minted(reporter.clusters, clusters(state'), uuid)
    /\ pc' = "routes"
    /\ UNCHANGED <<stream, sent>>

\* the same, for as long as fewer than MaxUuid versions were minted
Receive(i, endpoints) == uuid < MaxUuid /\ Update(i, endpoints) /\ UNCHANGED aux

\* a loop that extends the entry of the key by the snapshot it received
CycleExtending(i, lookup, probes) ==
    /\ uuid < MaxUuid + 2
    /\ Update(i, (IF i \in DOMAIN state THEN state[i] ELSE <<>>) \o WatchCycle(lookup, probes))
    /\ UNCHANGED aux

\* the item the resolver stream of upstream i yields after a cycle whose
\* lookup and probes end as given, received by the loop
Cycle(i, lookup, probes) ==
    uuid < MaxUuid + 2 /\ Update(i, WatchCycle(lookup, probes)) /\ UNCHANGED aux

\* ads_reporter.route_configurations(vec![generator.route_configuration()?])?
PublishRoutes ==
    /\ pc = "routes"
    /\ LET value == <<route_configuration(state, order)>>
       IN  /\ reporter' = [reporter EXCEPT !.route_configurations = send(@, value, uuid)]
           /\ uuid' = Minted(reporter.route_configurations, value, uuid)
    /\ replaced' = [i |-> None, old |-> None]
    /\ pc' = "recv"
    /\ UNCHANGED <<state, order, stream, sent>>
    /\ UNCHANGED aux

(***************************************************************************)
(* Server::stream_aggregated_resources: one client stream.                 *)
(***************************************************************************)
\* uuid::Uuid::new_v4() of response: a value no response carried before
\* (the k-th response of stream s carries the nonce of s and k)
\* a counter each stream keeps for itself
new_v4_counter(s, log) == <<"nonce", Len(log) + 1>>

new_v4(s, log) == <<"nonce", s, Len(log) + 1>>

\* response(version_info, resources); `on` records which arm of the match
\* built the response
\* response with the type_url of Cluster whatever the resources are
response_cluster_type(held, ch, nonce, on) ==
    [version_info |-> held[1].version_info,
     resources |-> held[1].resources,
     type_url |-> TypeCluster,
     nonce |-> nonce,
     on |-> on]

response(held, ch, nonce, on) ==
    [version_info |-> held[1].version_info,
     resources |-> held[1].resources,
     type_url |-> type_url(ch),
     nonce |-> nonce,
     on |-> on]

\* a WatchStream that yields the current value on the first poll only and
\* never wakes for a change
ReadyOnce(s, ch) == stream[s].seen[ch] = -1

\* WatchStream: an item is ready on the first poll and after every change
\* (seen is -1 before the first poll, then the version last yielded)
Ready(s, ch) ==
    stream[s].seen[ch] = -1 \/ stream[s].seen[ch] # VersionOf(reporter[ch])

\* the items of the merged stream: a DiscoveryRequest, or the value a
\* WatchStream yielded (recorded by its channel)
\* the empty string of response_nonce (a nonce is a sequence, this one is empty)
Empty == <<>>

NoItem == [kind |-> "none", type_url |-> "", response_nonce |-> Empty, error_detail |-> FALSE]
WatchItem(ch) ==
    [kind |-> "watch", type_url |-> type_url(ch), response_nonce |-> Empty,
     error_detail |-> FALSE]
RequestItem(type, nonce, error) ==
    [kind |-> "request", type_url |-> type, response_nonce |-> nonce, error_detail |-> error]

\* the responses of a log that answered a request
RECURSIVE Answers(_)
Answers(log) ==
    IF log = <<>> THEN 0
    ELSE (IF Head(log).on = "request" THEN 1 ELSE 0) + Answers(Tail(log))

\* a client connects: WatchStream::new of both receivers
Connect(s) ==
    /\ stream[s].status = "idle"
    /\ stream' = [stream EXCEPT ![s] =
            [status |-> "open",
             item |-> NoItem,
             seen |-> [ch \in Channels |-> -1],
             at_connect |-> [ch \in Channels |-> VersionOf(reporter[ch])]]]
    /\ UNCHANGED <<state, order, pc, replaced, reporter, uuid, sent>>
    /\ UNCHANGED aux

NoChannel == "none"

\* the answer chosen without looking at response_nonce
AnsweredFromAnyNonce(request) ==
    IF request.type_url = TypeCluster /\ reporter.clusters # None
    THEN "clusters"
    ELSE IF request.type_url = TypeRouteConfiguration /\ reporter.route_configurations # None
    THEN "route_configurations"
    ELSE NoChannel

\* the channel an initial request is answered from, NoChannel when the
\* request gets no response
AnsweredFrom(request) ==
    IF request.type_url = TypeCluster /\ request.response_nonce = Empty
       /\ reporter.clusters # None
    THEN "clusters"
    ELSE IF request.type_url = TypeRouteConfiguration /\ request.response_nonce = Empty
            /\ reporter.route_configurations # None
    THEN "route_configurations"
    ELSE NoChannel

\* a request arm that answers with the version the channel held when the
\* stream was created instead of borrowing the channel now
RequestStale(s, request) ==
    /\ stream[s].status = "open"
    /\ Answers(sent[s]) < MaxRequests
    /\ stream' = [stream EXCEPT ![s].item = request]
    /\ LET ch == AnsweredFrom(request)
       IN  sent' = IF ch = NoChannel \/ stream[s].at_connect[ch] = 0 THEN sent
                   ELSE [sent EXCEPT ![s] =
                            Append(@, [response(reporter[ch], ch, new_v4(s, sent[s]), "request")
                                        EXCEPT !.version_info = stream[s].at_connect[ch]])]
    /\ UNCHANGED <<state, order, pc, replaced, reporter, uuid>>
    /\ UNCHANGED aux

\* Either::Left(request): a DiscoveryRequest arrives on the stream
Request(s, request) ==
    /\ stream[s].status = "open"
    /\ Answers(sent[s]) < MaxRequests
    /\ stream' = [stream EXCEPT ![s].item = request]
    /\ LET ch == AnsweredFrom(request)
       IN  sent' = IF ch = NoChannel THEN sent
                   ELSE [sent EXCEPT ![s] =
                            Append(@, response(reporter[ch], ch, new_v4(s, sent[s]), "request"))]
    /\ UNCHANGED <<state, order, pc, replaced, reporter, uuid>>
    /\ UNCHANGED aux

\* the stream is over: both WatchStreams are dropped with it
Ended(status) ==
    [status |-> status,
     item |-> NoItem,
     seen |-> [ch \in Channels |-> -1],
     at_connect |-> [ch \in Channels |-> 0]]

\* Either::Left(Err(status)): `request?` ends the stream with the status
RequestError(s) ==
    /\ stream[s].status = "open"
    /\ stream' = [stream EXCEPT ![s] = Ended("error")]
    /\ UNCHANGED <<state, order, pc, replaced, reporter, uuid, sent>>
    /\ UNCHANGED aux

\* a disconnect that drops the response stream of every client
DisconnectEvery(s) ==
    /\ stream[s].status = "open"
    /\ stream' = [t \in DOMAIN stream |->
                     IF stream[t].status = "open" THEN Ended("closed") ELSE stream[t]]
    /\ UNCHANGED <<state, order, pc, replaced, reporter, uuid, sent>>
    /\ UNCHANGED aux

\* the client goes away: the response stream is dropped
Disconnect(s) ==
    /\ stream[s].status = "open"
    /\ stream' = [stream EXCEPT ![s] = Ended("closed")]
    /\ UNCHANGED <<state, order, pc, replaced, reporter, uuid, sent>>
    /\ UNCHANGED aux

\* a watch arm that sends only on the channels that held a value when the
\* stream was created
PollHeldAtConnect(s, ch) ==
    /\ stream[s].status = "open"
    /\ Ready(s, ch)
    /\ stream' = [stream EXCEPT ![s].seen[ch] = VersionOf(reporter[ch]),
                                 ![s].item = WatchItem(ch)]
    /\ sent' = IF reporter[ch] = None \/ stream[s].at_connect[ch] = 0 THEN sent
               ELSE [sent EXCEPT ![s] =
                        Append(@, response(reporter[ch], ch, new_v4(s, sent[s]), "watch"))]
    /\ UNCHANGED <<state, order, pc, replaced, reporter, uuid>>
    /\ UNCHANGED aux

\* Either::Right(..): a WatchStream yields the value its channel holds now
\* (borrow_and_update); Some(..) is sent, None is dropped
Poll(s, ch) ==
    /\ stream[s].status = "open"
    /\ Ready(s, ch)
    /\ stream' = [stream EXCEPT ![s].seen[ch] = VersionOf(reporter[ch]),
                                 ![s].item = WatchItem(ch)]
    /\ sent' = IF reporter[ch] = None THEN sent
               ELSE [sent EXCEPT ![s] =
                        Append(@, response(reporter[ch], ch, new_v4(s, sent[s]), "watch"))]
    /\ UNCHANGED <<state, order, pc, replaced, reporter, uuid>>
    /\ UNCHANGED aux

PollClusters(s) == Poll(s, "clusters")
PollRouteConfigurations(s) == Poll(s, "route_configurations")

\* the DiscoveryRequests a client can send on stream s: an initial request
\* (empty response_nonce), or an ACK / NACK of the last response it got
Requests(s) ==
    {RequestItem(type, Empty, FALSE) : type \in TypeUrls}
    \cup (IF sent[s] = <<>> THEN {}
          ELSE {RequestItem(Last(sent[s]).type_url, Last(sent[s]).nonce, error) :
                    error \in BOOLEAN})

(***************************************************************************)
(* Resolver::watch (control-plane/src/lb/resolver.rs): the stream of one   *)
(* upstream, its jittered deadline and the phases of one cycle.  Time is   *)
(* counted in ticks of the clock.                                          *)
(***************************************************************************)
\* Upstream::interval, the same for every upstream
interval(i) == 5

\* Upstream::timeout, an Option: upstream 0 is configured without one
timeout(i) == IF i = 0 THEN None ELSE Some(2)

\* a range of 50% around the interval
JitterWide(i) == (interval(i) * 1) \div 2 .. (interval(i) * 3) \div 2

\* upstream.interval * 4 / 5..=upstream.interval * 6 / 5
Jitter(i) == (interval(i) * 4) \div 5 .. (interval(i) * 6) \div 5

\* a deadline moved by one delay, however late the stream is
CatchUpOnce(i, instant, t) == {instant + d : d \in Jitter(i)}

\* while instant <= now { instant += rng.random_range(..) }: the deadlines
\* the loop can end with
RECURSIVE CatchUp(_, _, _)
CatchUp(i, instant, t) ==
    IF instant > t THEN {instant}
    ELSE UNION {CatchUp(i, instant + d, t) : d \in Jitter(i)}

\* the outcome of a lookup that returns every record, in ascending order
LookupOk(i) ==
    Some(CHOOSE ips \in Orders(Records(i)) : \A k \in 1..(Len(ips) - 1) : ips[k] < ips[k + 1])

\* the backends of upstream i that accept the connection of a probe and
\* never answer, during one cycle: none, or the first one
Silent(i) == {{}, {1}}

\* the addresses one lookup resolved
Resolved(lookup) == IF lookup = None THEN {} ELSE Range(lookup[1])

\* tokio::time::timeout(upstream.timeout.unwrap_or(Duration::MAX), get(..)):
\* the ways the probes of the cycle of upstream i can all end.  A backend
\* that answers gives its list or an error; one that never answers ends the
\* probe by the timeout when one is configured, and never otherwise.
Outcomes(i) ==
    {probes \in list_models(i) :
        \A ip \in unfold[i].silent \cap Resolved(unfold[i].lookup) :
            timeout(i) # None /\ probes[ip] = None}

\* the clock advances
Elapse ==
    /\ now < MaxNow
    /\ now' = now + 1
    /\ UNCHANGED <<lbVars, unfold, muxVars>>

\* tokio::time::sleep_until(instant.into()).await returns, the deadline is
\* moved past now and the lookup is started; tick is the deadline slept
\* until, polled the time at which this cycle started
SleepUntil(i, instant) ==
    /\ unfold[i].pc = "sleep"
    /\ unfold[i].instant <= now
    /\ instant \in CatchUp(i, unfold[i].instant, now)
    /\ unfold' = [unfold EXCEPT ![i] =
            [@ EXCEPT !.pc = "lookup", !.tick = unfold[i].instant,
                      !.instant = instant, !.polled = now]]
    /\ UNCHANGED <<lbVars, now, muxVars>>

\* self.resolver.lookup_ip(host).await returns and the probes are started
LookupIp(i, lookup, silent) ==
    /\ unfold[i].pc = "lookup"
    /\ unfold' = [unfold EXCEPT ![i] =
            [@ EXCEPT !.pc = "probe", !.lookup = lookup, !.silent = silent]]
    /\ UNCHANGED <<lbVars, now, muxVars>>

\* a stream that yields only while no other stream is in the middle of a
\* cycle (the streams awaited one after the other)
YieldJoined(i, probes) ==
    /\ unfold[i].pc = "probe"
    /\ \A j \in Upstreams \ {i} : unfold[j].pc = "sleep"
    /\ probes \in Outcomes(i)
    /\ unfold' = [unfold EXCEPT ![i] =
            [@ EXCEPT !.pc = "sleep", !.lookup = None, !.silent = {}]]
    /\ UNCHANGED now

\* join_all(..).await returns and the stream of upstream i yields
\* Some((endpoints, (rng, instant))): select_all polls every stream, so that
\* nothing but the probes of upstream i is waited for
Yield(i, probes) ==
    /\ unfold[i].pc = "probe"
    /\ probes \in Outcomes(i)
    /\ unfold' = [unfold EXCEPT ![i] =
            [@ EXCEPT !.pc = "sleep", !.lookup = None, !.silent = {}]]
    /\ UNCHANGED now

\* the stream yields the snapshot and the loop of main, which
\* stream.next().await resumes with it, applies it
Emit(i, probes) ==
    /\ Yield(i, probes)
    /\ Update(i, WatchCycle(unfold[i].lookup, probes))
    /\ UNCHANGED muxVars

\* futures::stream::unfold((rng, Instant::now()), ..): the first deadline
\* is the time at which the stream is made
InitUnfold ==
    /\ now = 0
    /\ unfold = [i \in Upstreams |->
            [pc |-> "sleep", instant |-> 0, tick |-> 0, polled |-> -1,
             lookup |-> None, silent |-> {}]]

(***************************************************************************)
(* client::Pool (src/mux/client.rs, src/misc/pool.rs): the cache of HTTP   *)
(* clients of the direct proxy, one per (ip, http2_only).                  *)
(***************************************************************************)
\* Pool::CACHE_CAP: u16::MAX
CACHE_CAP == Pow2(CapBits) - 1

\* client::Options
Options(ip, http2_only) == [ip |-> ip, http2_only |-> http2_only]

\* the position of a key in the cache, 0 when it is not cached
RECURSIVE Position(_, _)
Position(cache, key) ==
    IF cache = <<>> THEN 0
    ELSE IF Last(cache).key = key THEN Len(cache)
    ELSE Position(SubSeq(cache, 1, Len(cache) - 1), key)

\* a cache without its k-th entry
Without(cache, k) == SubSeq(cache, 1, k - 1) \o SubSeq(cache, k + 1, Len(cache))

\* the client the cache holds for a key, 0 for none
ClientOf(cache, key) ==
    IF Position(cache, key) = 0 THEN 0 ELSE cache[Position(cache, key)].client

\* a lookup that leaves a cached entry where it is
get_or_insert_peek(cache, key, client) ==
    LET k == Position(cache, key)
    IN  IF k > 0 THEN cache
        ELSE <<[key |-> key, client |-> client]>>
             \o (IF Len(cache) = CACHE_CAP THEN Without(cache, Len(cache)) ELSE cache)

\* LruCache::get_or_insert: a cached entry moves to the head; a new one is
\* put at the head with the client f built, after the entry at the tail
\* was dropped when the cache is full
get_or_insert(cache, key, client) ==
    LET k == Position(cache, key)
    IN  IF k > 0 THEN <<cache[k]>> \o Without(cache, k)
        ELSE <<[key |-> key, client |-> client]>>
             \o (IF Len(cache) = CACHE_CAP THEN Without(cache, Len(cache)) ELSE cache)

\* a lookup that builds a client whether the key is cached or not
service_rebuilding(p, options) ==
    LET fresh == p.built + 1
        k == Position(p.cache, options)
    IN  [cache |-> <<[key |-> options, client |-> fresh]>>
                   \o (IF k > 0 THEN Without(p.cache, k)
                       ELSE IF Len(p.cache) = CACHE_CAP THEN Without(p.cache, Len(p.cache))
                       ELSE p.cache),
         built |-> fresh,
         handle |-> Some(fresh)]

\* Pool::service, under the lock of the cache: f = build_service runs only
\* for a key that is not cached; the clone of the entry is returned
service(p, options) ==
    LET cached == Position(p.cache, options) > 0
        cache == get_or_insert(p.cache, options, p.built + 1)
    IN  [cache |-> cache,
         built |-> IF cached THEN p.built ELSE p.built + 1,
         handle |-> Some(ClientOf(cache, options))]

\* Pool::service for each of the keys, in order
RECURSIVE ServiceAll(_, _)
ServiceAll(p, keys) ==
    IF keys = <<>> THEN p ELSE ServiceAll(service(p, Head(keys)), Tail(keys))

\* the keys looked up while the pool alone is explored
Keys == {Options(ip, http2_only) : ip \in 1..2, http2_only \in BOOLEAN}

\* one caller of Pool::service; the callers take the lock one at a time
PoolService(options) ==
    /\ Position(pool.cache, options) > 0 \/ pool.built < MaxBuilt
    /\ pool' = service(pool, options)
    /\ UNCHANGED <<lbVars, watchVars, fleet, listed, exchange>>

\* Pool::new
InitPool == pool = [cache |-> <<>>, built |-> 0, handle |-> None]

(***************************************************************************)
(* The direct proxy: the tunnel handlers of src/mux.rs, src/main.rs and    *)
(* src/azure.rs, the fleet their watch tasks keep and Backend::service     *)
(* (src/mux/backend.rs).  One client request is in hand at a time.         *)
(***************************************************************************)
\* the programs: the mux and azure subcommands, and the proxy of main.rs
Variants == {"mux", "main", "azure"}

\* the header names a request carries
HeaderNames == {"authorization", "connection", "host", "upgrade", "api-key", "content-type"}

\* http::HeaderMap: for each name its values, in order; none when absent.
\* A request with the content type alone, and one with every name, some
\* of them twice
Plain == [name \in HeaderNames |-> IF name = "content-type" THEN <<"json">> ELSE <<>>]
Laden ==
    [name \in HeaderNames |->
        IF name = "authorization" THEN <<"a", "b">>
        ELSE IF name = "api-key" THEN <<"client", "other">>
        ELSE IF name = "upgrade" THEN <<"ws", "h2c">>
        ELSE <<name>>]

\* HeaderMap::remove: every value of the name goes
remove(headers, name) == [headers EXCEPT ![name] = <<>>]

\* HeaderMap::insert: the value replaces every value of the name
insert(headers, name, value) == [headers EXCEPT ![name] = <<value>>]

\* a loop that removes the first value of each name only
strip_first(headers) ==
    [name \in HeaderNames |->
        IF name \in {"authorization", "connection", "host", "upgrade"} /\ headers[name] # <<>>
        THEN Tail(headers[name]) ELSE headers[name]]

\* for name in [AUTHORIZATION, CONNECTION, HOST, UPGRADE]:
\* while parts.headers.remove(&name).is_some() {}
strip(headers) ==
    remove(remove(remove(remove(headers, "authorization"), "connection"), "host"), "upgrade")

\* the model names a request can carry: 1 and 2 are served by backends, 3 by
\* none, and its text is not one a URI can hold
ModelNames == {1, 2, 3}

\* the JSON values a body can give for model: a string or a number
Values == {[string |-> TRUE, v |-> id] : id \in ModelNames} \cup {[string |-> FALSE, v |-> 1]}

\* the bodies of the requests: text that is not JSON, an object whose field
\* model is absent or holds a value, an array of one string
Payloads ==
    {[kind |-> "text", items |-> <<>>], [kind |-> "array", items |-> <<[string |-> TRUE, v |-> 1]>>]}
    \cup {[kind |-> "object", items |-> items] : items \in {<<>>} \cup {<<v>> : v \in Values}}

\* serde_json::from_slice::<Body>(&body) with struct Body { model: String }:
\* the derived visitor takes a map with the key model as well as a sequence
\* whose one element is the field; None stands for Err
from_slice(body) ==
    IF body.kind = "text" \/ body.items = <<>> \/ ~body.items[1].string THEN None
    ELSE Some(body.items[1].v)

\* the requests a client sends to a tunnel route (origin form: neither
\* scheme nor authority), one route without a query, one with
Inbound ==
    {[uri |-> [scheme |-> None, authority |-> None,
               path_and_query |-> Some([path |-> "/v1/completions", query |-> None])],
      headers |-> Plain, body |-> b] : b \in Payloads}
    \cup {[uri |-> [scheme |-> None, authority |-> None,
                    path_and_query |-> Some([path |-> "/v1/chat/completions",
                                             query |-> Some("x=1")])],
           headers |-> Laden, body |-> b] : b \in Payloads}

\* Config::uri of upstream i: scheme and authority, no path
config_uri(i) ==
    [scheme |-> Some("http"), authority |-> Some(<<i, port_or_80(upstream[i])>>), path_and_query |-> None]

\* resolve_uri: the parts of base with the path_and_query of reference
resolve_uri(base, reference) == [base EXCEPT !.path_and_query = reference.path_and_query]

\* mux::backend::Backend (config stands for its index)
Backend(i, ip, models) == [config |-> i, ip |-> ip, models |-> models]

\* a filter that keeps the URI of the request and removes a value per name
filter_kept(backend, request) ==
    [request EXCEPT !.headers = strip_first(request.headers)]

\* the filter of Backend::service
filter(backend, request) ==
    [request EXCEPT !.uri = resolve_uri(config_uri(backend.config), request.uri),
                    !.headers = strip(request.headers)]

\* State::backends with flat_map(Deref::deref): every Backend, in the order
\* of the configuration
backends(fl) == Concat([k \in 1..Cardinality(Upstreams) |-> fl[k - 1]])

\* the largest number of backends the fleet can hold
MaxBackends == SeqSum([k \in 1..Cardinality(Upstreams) |-> Cardinality(Records(k - 1))])

\* the filter of tunnel: the backends whose models hold the id
Serving(bs, model) ==
    SelectSeq(bs, LAMBDA backend : \E k \in 1..Len(backend.models) : backend.models[k].id = model)

\* a pick that always takes the first backend
choose_first(found) == IF found = <<>> THEN {} ELSE {1}

\* SliceRandom::choose: the indexes the generator can give, none for an
\* empty slice
choose(found) == 1..Len(found)

\* error(code, message): the status and the body Json(Error { code, message })
\* serialises to, with the tag object = "error"
error(code, message) ==
    [status |-> code, body |-> [object |-> "error", code |-> code, message |-> message]]

\* what the backend answered, passed on as it is
Incoming == [status |-> 200, body |-> [object |-> "upstream", code |-> 200, message |-> ""]]

\* the proxy answered without sending anything
Refused(via, request, answer) ==
    [pc |-> "done", via |-> via, request |-> Some(request), found |-> <<>>,
     backend |-> None, outbound |-> <<>>, response |-> Some(answer)]

\* the proxy sent the rewritten request to a backend
Sent(via, request, found, backend, outbound) ==
    [pc |-> "sent", via |-> via, request |-> Some(request), found |-> found,
     backend |-> backend, outbound |-> <<outbound>>, response |-> None]

\* mux: backend::watch, one cycle: a Backend per resolved address, with the
\* models of its answer or none; each probe takes its client from the pool
WatchMux(i, lookup, probes) ==
    /\ exchange.via = "mux"
    /\ LET ips == IF lookup = None THEN <<>> ELSE lookup[1]
       IN  /\ fleet' = [fleet EXCEPT ![i] =
                  [k \in 1..Len(ips) |-> Backend(i, ips[k], ModelsOrDefault(probes[ips[k]]))]]
           /\ pool' = ServiceAll(pool,
                  [k \in 1..Len(ips) |-> Options(ips[k], upstream[i].http2_only)])
    /\ UNCHANGED <<lbVars, watchVars, listed, exchange>>

\* main.rs: watch, one tick of an endpoint: *models.write().await = latest.ok()
WatchMain(i, latest) ==
    /\ exchange.via = "main"
    /\ listed' = [listed EXCEPT ![i] = latest]
    /\ UNCHANGED <<lbVars, watchVars, fleet, exchange, pool>>

\* mux.rs: tunnel, up to the request handed to the client of the backend
TunnelMux(request, k) ==
    /\ exchange.via = "mux"
    /\ exchange.pc # "sent"
    /\ LET model == from_slice(request.body)
           found == IF model = None THEN <<>> ELSE Serving(backends(fleet), model[1])
       IN  IF model = None
           THEN /\ k = 0
                /\ exchange' = Refused("mux", request, error(400, "parse"))
                /\ pool' = pool
           ELSE IF choose(found) = {}
           THEN /\ k = 0
                /\ exchange' = Refused("mux", request, error(404, "model not found"))
                /\ pool' = pool
           ELSE /\ k \in choose(found)
                /\ exchange' = Sent("mux", request, found, Some(found[k]),
                                    filter(found[k], request))
                /\ pool' = service(pool, Options(found[k].ip,
                                                 upstream[found[k].config].http2_only))
    /\ UNCHANGED <<lbVars, watchVars, fleet, listed>>

\* main.rs: tunnel: the first endpoint whose models hold the id, the URI of
\* the endpoint with the path of the request, Host removed
TunnelMain(request) ==
    /\ exchange.via = "main"
    /\ exchange.pc # "sent"
    /\ LET model == from_slice(request.body)
           all == [k \in 1..Cardinality(Upstreams) |->
                      Backend(k - 1, 0, ModelsOrDefault(listed[k - 1]))]
           found == IF model = None THEN <<>> ELSE Serving(all, model[1])
       IN  IF model = None
           THEN exchange' = Refused("main", request, error(400, "parse"))
           ELSE IF found = <<>>
           THEN exchange' = Refused("main", request, error(400, "no such model"))
           ELSE exchange' = Sent("main", request, found, Some(found[1]),
                    [request EXCEPT
                        !.uri = resolve_uri(config_uri(found[1].config), request.uri),
                        !.headers = remove(request.headers, "host")])
    /\ UNCHANGED <<lbVars, watchVars, fleet, listed, pool>>

\* the URI azure.rs formats and parses: the deployment of the model and the
\* path of the route, with the configured api-version
azure_uri(model, pq) ==
    [scheme |-> Some("https"), authority |-> Some(<<"resource.openai.azure.com", 443>>),
     path_and_query |-> Some([path |-> <<"/openai/deployments", model, pq.path>>,
                              query |-> Some("api-version")])]

\* azure.rs: tunnel
TunnelAzure(request) ==
    /\ exchange.via = "azure"
    /\ exchange.pc # "sent"
    /\ LET model == from_slice(request.body)
       IN  IF model = None
           THEN exchange' = Refused("azure", request, error(400, "parse"))
           ELSE IF model[1] = 3
           THEN exchange' = Refused("azure", request, error(400, "uri"))
           ELSE exchange' = Sent("azure", request, <<>>, None,
                    [request EXCEPT
                        !.uri = azure_uri(model[1], request.uri.path_and_query[1]),
                        !.headers = insert(strip(request.headers), "api-key", "configured")])
    /\ UNCHANGED <<lbVars, watchVars, fleet, listed, pool>>

\* a proxy that tries the next backend when the first attempt failed
RespondRetrying(ok) ==
    /\ exchange.pc = "sent"
    /\ IF ~ok /\ Len(exchange.outbound) < Len(exchange.found)
       THEN exchange' = [exchange EXCEPT !.outbound = Append(@, Last(@))]
       ELSE exchange' = [exchange EXCEPT
                !.pc = "done",
                !.response = Some(IF ok THEN Incoming ELSE error(502, "upstream"))]
    /\ UNCHANGED <<lbVars, watchVars, fleet, listed, pool>>

\* the attempt ends: the response of the backend is passed on, an error of
\* the client becomes error(StatusCode::BAD_GATEWAY, e)
Respond(ok) ==
    /\ exchange.pc = "sent"
    /\ exchange' = [exchange EXCEPT
            !.pc = "done",
            !.response = Some(IF ok THEN Incoming ELSE error(502, "upstream"))]
    /\ UNCHANGED <<lbVars, watchVars, fleet, listed, pool>>

\* Backends::default() and RwLock::new(None): no backend, no models; no
\* request in hand
InitMux ==
    /\ fleet = [i \in Upstreams |-> <<>>]
    /\ listed = [i \in Upstreams |-> None]
    /\ exchange = [pc |-> "idle", via |-> "mux", request |-> None, found |-> <<>>,
                   backend |-> None, outbound |-> <<>>, response |-> None]

(***************************************************************************)
(* The specification.                                                      *)
(***************************************************************************)
Init ==
    /\ state = [i \in {} |-> <<>>]
    /\ order = <<>>
    /\ pc = "recv"
    /\ replaced = [i |-> None, old |-> None]
    /\ reporter = [ch \in Channels |-> None]
    /\ uuid = 0
    /\ stream = [s \in Streams |->
            [status |-> "idle",
             item |-> NoItem,
             seen |-> [ch \in Channels |-> -1],
             at_connect |-> [ch \in Channels |-> 0]]]
    /\ sent = [s \in Streams |-> <<>>]
    /\ InitUnfold
    /\ InitPool
    /\ InitMux

\* the control plane with clients that stay connected, while lookups and
\* probes succeed and the load is steady
Next ==
    \/ \E i \in Upstreams : \E endpoints \in Steady(i) : Receive(i, endpoints)
    \/ PublishRoutes
    \/ \E s \in Streams : Connect(s)
    \/ \E s \in Streams : \E request \in Requests(s) : Request(s, request)
    \/ \E s \in Streams : PollClusters(s)
    \/ \E s \in Streams : PollRouteConfigurations(s)

Spec == Init /\ [][Next]_vars

\* the same, with every stream polled as long as one of its WatchStreams has
\* an item ready
FairSpec ==
    /\ Spec
    /\ \A s \in Streams : WF_vars(PollClusters(s)) /\ WF_vars(PollRouteConfigurations(s))

\* the update loop alone, over the first cycle of each upstream, with every
\* outcome of the lookup and of the probes
NextGen ==
    \/ \E i \in Upstreams \ DOMAIN state : \E endpoints \in Watch(i) : Receive(i, endpoints)
    \/ PublishRoutes

SpecGen == Init /\ [][NextGen]_vars

\* the update loop alone, over the first cycle of each upstream, with a
\* backend whose queue is empty or as long as the pending field can tell
NextWeight ==
    \/ \E i \in Upstreams \ DOMAIN state : \E endpoints \in Stuck(i) : Receive(i, endpoints)
    \/ PublishRoutes

SpecWeight == Init /\ [][NextWeight]_vars

\* the update loop alone, over cycles whose lookup or probes may fail
NextFail ==
    \/ \E i \in Upstreams : \E lookup \in lookup_ip(i) : \E probes \in list_models(i) :
          Cycle(i, lookup, probes)
    \/ PublishRoutes

SpecFail == Init /\ [][NextFail]_vars

\* the control plane over such cycles, with a client whose stream is pushed
\* what the Reporter publishes and may end, by an error of the client's side
\* or by the client going away
NextDegraded ==
    \/ \E i \in Upstreams : \E lookup \in lookup_ip(i) : \E probes \in list_models(i) :
          Receive(i, WatchCycle(lookup, probes))
    \/ PublishRoutes
    \/ \E s \in Streams : Connect(s)
    \/ \E s \in Streams : PollClusters(s)
    \/ \E s \in Streams : PollRouteConfigurations(s)
    \/ \E s \in Streams : RequestError(s)
    \/ \E s \in Streams : Disconnect(s)

SpecDegraded == Init /\ [][NextDegraded]_vars

\* the resolver streams and the update loop over the first cycle of each
\* upstream (the clock stands still), with backends that answer, fail or
\* stay silent
NextWatch ==
    \/ \E i \in Upstreams : \E instant \in 1..(2 * interval(i)) : SleepUntil(i, instant)
    \/ \E i \in Upstreams : \E lookup \in lookup_ip(i) : \E silent \in Silent(i) :
          LookupIp(i, lookup, silent)
    \/ \E i \in Upstreams : \E probes \in list_models(i) : Emit(i, probes)
    \/ PublishRoutes

SpecWatch == Init /\ [][NextWatch]_vars

\* the resolver stream of upstream 0 and the update loop while the clock
\* runs, its lookups succeed and its backends answer their steady lists (the
\* behaviours in which the stream of upstream 1 has not been resumed yet)
NextTick ==
    \/ Elapse
    \/ \E instant \in 1..(MaxNow + 2 * interval(0)) : SleepUntil(0, instant)
    \/ LookupIp(0, LookupOk(0), {})
    \/ Emit(0, [ip \in Records(0) |-> Some(Served(0, ip))])
    \/ PublishRoutes

SpecTick == Init /\ [][NextTick]_vars

\* the pool alone, looked up by any number of callers
NextPool == \E options \in Keys : PoolService(options)

SpecPool == Init /\ [][NextPool]_vars

\* one of the three proxies, its watch task and a client
InitProxy ==
    /\ \E via \in Variants :
          exchange = [pc |-> "idle", via |-> via, request |-> None, found |-> <<>>,
                      backend |-> None, outbound |-> <<>>, response |-> None]
    /\ fleet = [i \in Upstreams |-> <<>>]
    /\ listed = [i \in Upstreams |-> None]
    /\ InitPool
    /\ InitUnfold
    /\ state = [i \in {} |-> <<>>]
    /\ order = <<>>
    /\ pc = "recv"
    /\ replaced = [i |-> None, old |-> None]
    /\ reporter = [ch \in Channels |-> None]
    /\ uuid = 0
    /\ stream = [s \in Streams |->
            [status |-> "idle",
             item |-> NoItem,
             seen |-> [ch \in Channels |-> -1],
             at_connect |-> [ch \in Channels |-> 0]]]
    /\ sent = [s \in Streams |-> <<>>]

NextProxy ==
    \/ \E i \in Upstreams : \E lookup \in lookup_ip(i) : \E probes \in list_models(i) :
          WatchMux(i, lookup, probes)
    \/ \E i \in Upstreams : \E latest \in {None} \cup {Some(Served(i, ip)) : ip \in Records(i)} :
          WatchMain(i, latest)
    \/ \E request \in Inbound : \E k \in 0..MaxBackends :
          TunnelMux(request, k)
    \/ \E request \in Inbound : TunnelMain(request)
    \/ \E request \in Inbound : TunnelAzure(request)
    \/ \E ok \in BOOLEAN : Respond(ok)

SpecProxy == InitProxy /\ [][NextProxy]_vars

(***************************************************************************)
(* backend::watch of the mux proxy (src/mux/backend.rs), step by step.     *)
(* The locals of the loop of upstream i are kept in unfold[i]: lookup      *)
(* holds next, the boxed slice of Backends being filled, and silent the    *)
(* addresses whose probe has not returned.                                 *)
(***************************************************************************)
\* interval.tick().await and resolver.lookup_ip(host).await return; next is
\* collected, one Backend per address with models: Vec::new(), and join_all
\* starts the probes, each taking its client from the pool
WatchTick(i, lookup) ==
    /\ exchange.via = "mux"
    /\ unfold[i].pc = "sleep"
    /\ LET ips == IF lookup = None THEN <<>> ELSE lookup[1]
       IN  /\ unfold' = [unfold EXCEPT ![i] =
                  [@ EXCEPT !.pc = "probe",
                            !.lookup = Some([k \in 1..Len(ips) |-> Backend(i, ips[k], <<>>)]),
                            !.silent = Range(ips)]]
           /\ pool' = ServiceAll(pool,
                  [k \in 1..Len(ips) |-> Options(ips[k], upstream[i].http2_only)])
    /\ UNCHANGED <<lbVars, now, fleet, listed, exchange>>

\* next with the models of the Backend at ip set
Filled(next, ip, models) ==
    [k \in 1..Len(next) |-> IF next[k].ip = ip THEN [next[k] EXCEPT !.models = models]
                            ELSE next[k]]

\* a probe that fills the models in behind the lock the readers read
WatchProbeShared(i, ip, output) ==
    /\ exchange.via = "mux"
    /\ unfold[i].pc = "probe"
    /\ ip \in unfold[i].silent
    /\ LET next == IF output = None THEN unfold[i].lookup[1]
                   ELSE Filled(unfold[i].lookup[1], ip, output[1])
       IN  /\ unfold' = [unfold EXCEPT ![i] =
                  [@ EXCEPT !.lookup = Some(next), !.silent = @ \ {ip}]]
           /\ fleet' = [fleet EXCEPT ![i] = next]
    /\ UNCHANGED <<lbVars, now, listed, exchange, pool>>

\* if let Ok(models) = backend.v1_models().await { backend.models =
\* models.data }: the probe of one address returns
WatchProbe(i, ip, output) ==
    /\ exchange.via = "mux"
    /\ unfold[i].pc = "probe"
    /\ ip \in unfold[i].silent
    /\ unfold' = [unfold EXCEPT ![i] =
           [@ EXCEPT !.lookup = IF output = None THEN @
                                ELSE Some(Filled(@[1], ip, output[1])),
                     !.silent = @ \ {ip}]]
    /\ UNCHANGED <<lbVars, now, muxVars>>

\* join_all(..).await returns and *backends.write() = next
WatchWrite(i) ==
    /\ exchange.via = "mux"
    /\ unfold[i].pc = "probe"
    /\ unfold[i].silent = {}
    /\ fleet' = [fleet EXCEPT ![i] = unfold[i].lookup[1]]
    /\ unfold' = [unfold EXCEPT ![i] = [@ EXCEPT !.pc = "sleep", !.lookup = None]]
    /\ UNCHANGED <<lbVars, now, listed, exchange, pool>>

\* the requests with plain headers that name the first model
AskingFirst ==
    {request \in Inbound :
        request.headers = Plain /\ from_slice(request.body) = Some(1)
        /\ request.body.kind = "object"}

\* the mux proxy, its watch tasks step by step and a client
NextMux ==
    \/ \E i \in Upstreams : \E lookup \in lookup_ip(i) : WatchTick(i, lookup)
    \/ \E i \in Upstreams : \E ip \in Records(i) :
          \E output \in {None, Some(Served(i, ip))} : WatchProbe(i, ip, output)
    \/ \E i \in Upstreams : WatchWrite(i)
    \/ \E request \in AskingFirst : \E k \in 0..MaxBackends :
          TunnelMux(request, k)
    \/ \E ok \in BOOLEAN : Respond(ok)

SpecMux == Init /\ [][NextMux]_vars

(***************************************************************************)
(* The ADS of openai-proxy-control-plane                                   *)
(* (openai-proxy-control-plane/src/aggregated_discovery_service.rs): one   *)
(* watch channel holds the whole State, each stream keeps the State its    *)
(* WatchStream yielded last.  The variables state, order, pc and replaced  *)
(* take no part in it.                                                     *)
(***************************************************************************)
\* the client streams of this server
Clients == {"s1", "s2"}

\* main: state([("1.2.3.4", 80, "a")], "model", "local_route"), the State
\* handed to the Reporter at every tick
OcpState ==
    [clusters |-> <<[name |-> "cluster_a", endpoints |-> <<<<"1.2.3.4", 80>>>>]>>,
     route_configurations |->
        <<[name |-> "local_route",
           routes |-> <<[path |-> "/v1/models", header |-> ":method", exact |-> "GET",
                         cluster |-> ""],
                        [path |-> "/", header |-> "model", exact |-> "a",
                         cluster |-> "cluster_a"]>>]>>]

\* Reporter::update: a new Uuid and a notification only when the State
\* differs from the one the Reporter sent last
update(rep, st, minted) ==
    IF rep.state # Some(st)
    THEN [tx |-> Some([version_info |-> minted + 1, resources |-> st]), state |-> Some(st)]
    ELSE rep

\* main: interval.tick().await; ads_reporter.update(state(..))
Tick ==
    /\ reporter' = update(reporter, OcpState, uuid)
    /\ uuid' = IF reporter.state # Some(OcpState) THEN uuid + 1 ELSE uuid
    /\ UNCHANGED <<state, order, pc, replaced, stream, sent>>
    /\ UNCHANGED aux

\* a client connects: WatchStream::new(self.rx.clone()), state = None
ConnectOcp(s) ==
    /\ stream[s].status = "idle"
    /\ stream' = [stream EXCEPT ![s] =
            [status |-> "open", item |-> NoItem, seen |-> -1, state |-> None]]
    /\ UNCHANGED <<state, order, pc, replaced, reporter, uuid, sent>>
    /\ UNCHANGED aux

\* the part of the held State a response of the type of channel ch carries
PartOf(held, ch) ==
    Some([version_info |-> held[1].version_info, resources |-> held[1].resources[ch]])

\* the responses of the request arm: the second test repeats the first, so
\* its branch is never taken
RequestResponsesOcp(s, request) ==
    IF request.response_nonce = Empty /\ stream[s].state # None
    THEN IF request.type_url = TypeCluster
         THEN <<response(PartOf(stream[s].state, "clusters"), "clusters",
                         new_v4(s, sent[s]), "request")>>
         ELSE IF request.type_url = TypeCluster
         THEN <<response(PartOf(stream[s].state, "route_configurations"),
                         "route_configurations", new_v4(s, sent[s]), "request")>>
         ELSE <<>>
    ELSE <<>>

\* Either::Left(Ok(request))
RequestOcp(s, request) ==
    /\ stream[s].status = "open"
    /\ Answers(sent[s]) < MaxRequests
    /\ stream' = [stream EXCEPT ![s].item = request]
    /\ sent' = [sent EXCEPT ![s] = @ \o RequestResponsesOcp(s, request)]
    /\ UNCHANGED <<state, order, pc, replaced, reporter, uuid>>
    /\ UNCHANGED aux

\* Either::Right(s): state = s, then one response per type when it is Some
WatchOcp(s) ==
    /\ stream[s].status = "open"
    /\ stream[s].seen = -1 \/ stream[s].seen # VersionOf(reporter.tx)
    /\ stream' = [stream EXCEPT ![s].seen = VersionOf(reporter.tx),
                                 ![s].state = reporter.tx,
                                 ![s].item = WatchItem("clusters")]
    /\ sent' = IF reporter.tx = None THEN sent
               ELSE LET first == response(PartOf(reporter.tx, "clusters"), "clusters",
                                          new_v4(s, sent[s]), "watch")
                        second == response(PartOf(reporter.tx, "route_configurations"),
                                           "route_configurations",
                                           new_v4(s, Append(sent[s], first)), "watch")
                    IN  [sent EXCEPT ![s] = @ \o <<first, second>>]
    /\ UNCHANGED <<state, order, pc, replaced, reporter, uuid>>
    /\ UNCHANGED aux

InitOcp ==
    /\ state = [i \in {} |-> <<>>]
    /\ order = <<>>
    /\ pc = "recv"
    /\ replaced = [i |-> None, old |-> None]
    /\ reporter = [tx |-> None, state |-> None]
    /\ uuid = 0
    /\ stream = [s \in Clients |->
            [status |-> "idle", item |-> NoItem, seen |-> -1, state |-> None]]
    /\ sent = [s \in Clients |-> <<>>]
    /\ InitUnfold
    /\ InitPool
    /\ InitMux

NextOcp ==
    \/ Tick
    \/ \E s \in Clients : ConnectOcp(s)
    \/ \E s \in Clients : \E request \in Requests(s) : RequestOcp(s, request)
    \/ \E s \in Clients : WatchOcp(s)

SpecOcp == InitOcp /\ [][NextOcp]_vars

(***************************************************************************)
(* The resolver of openai-proxy-control-plane                              *)
(* (openai-proxy-control-plane/src/resolver.rs): each address is probed    *)
(* for its models and for its load.  Here state holds, per upstream, the   *)
(* snapshot its watch stream yielded last; the other variables take no     *)
(* part.                                                                   *)
(***************************************************************************)
\* the outcomes of self.active_requests_vllm(upstream, ip) for the addresses
\* of upstream i: for each an error, written None, or the count
active_requests_vllm(i) ==
    [Records(i) -> {None} \cup {Some(n) : n \in 0..MaxPending}]

\* resolver::Endpoint of this resolver
EndpointOcp(ip, models, active_requests) ==
    [ip |-> ip, models |-> models, active_requests |-> active_requests]

\* Resolver::watch, one cycle: join of the two probes of each address, each
\* outcome replaced by its default when it is an error
WatchCycleOcp(lookup, probes, metrics) ==
    LET ips == IF lookup = None THEN <<>> ELSE lookup[1]
    IN  [k \in 1..Len(ips) |->
            EndpointOcp(ips[k], ModelsOrDefault(probes[ips[k]]),
                        unwrap_or_default(metrics[ips[k]]))]

\* the watch stream of upstream i yields the snapshot of a cycle
YieldOcp(i, lookup, probes, metrics) ==
    /\ state' = Insert(state, i, WatchCycleOcp(lookup, probes, metrics))
    /\ UNCHANGED <<order, pc, replaced, reporter, uuid, stream, sent>>
    /\ UNCHANGED aux

NextOcpWatch ==
    \E i \in Upstreams : \E lookup \in lookup_ip(i) : \E probes \in list_models(i) :
        \E metrics \in active_requests_vllm(i) : YieldOcp(i, lookup, probes, metrics)

SpecOcpWatch == Init /\ [][NextOcpWatch]_vars

(***************************************************************************)
(* The ADS of openai-proxy-resolver                                        *)
(* (openai-proxy-resolver/src/aggregated_discovery_service.rs): one watch  *)
(* channel holds the Config its sender sent last; each stream keeps a      *)
(* counter version_info and the Config it sent last.                       *)
(***************************************************************************)
\* Config::default()
ConfigDefault == [clusters |-> <<>>, route_configurations |-> <<>>]

\* Config::new of one endpoint (addr, port, header_value): one cluster named
\* after the header value and the route of that value to it
ConfigNew(addr, port, header_value) ==
    [clusters |-> <<[name |-> <<"cluster_", Sha224(<<header_value, ":", 0>>)>>,
                     endpoints |-> <<<<addr, port>>>>]>>,
     route_configurations |->
        <<[name |-> "local_route",
           routes |-> <<[path |-> "/", header |-> "model", exact |-> header_value,
                         cluster |-> <<"cluster_", Sha224(<<header_value, ":", 0>>)>>]>>]>>]

\* the Configs the holder of the sender sends
Configs == {ConfigDefault, ConfigNew(1, 80, 1), ConfigNew(2, 80, 2)}

\* format!("v{version_info}")
FormatVersion(n) == <<"v", n>>

\* tx.send(Arc::new(config)): the channel holds the Config and every
\* receiver is notified, whatever it held before
SendOpr(config) ==
    /\ reporter.sends < MaxUuid
    /\ reporter' = [tx |-> config, sends |-> reporter.sends + 1]
    /\ UNCHANGED <<state, order, pc, replaced, uuid, stream, sent>>
    /\ UNCHANGED aux

\* a client connects: WatchStream::new(self.rx.clone()), version_info = 0,
\* config = Arc::default()
ConnectOpr(s) ==
    /\ stream[s].status = "idle"
    /\ stream' = [stream EXCEPT ![s] =
            [status |-> "open", item |-> NoItem, seen |-> -1,
             version_info |-> 0, config |-> ConfigDefault]]
    /\ UNCHANGED <<state, order, pc, replaced, reporter, uuid, sent>>
    /\ UNCHANGED aux

\* response(version_info, resources) of this server
ResponseOpr(s, n, config, ch, log, on) ==
    response(Some([version_info |-> FormatVersion(n), resources |-> config[ch]]),
             ch, new_v4(s, log), on)

\* Either::Left(Ok(request)): the second test repeats the first, so its
\* branch is never taken
RequestOpr(s, request) ==
    /\ stream[s].status = "open"
    /\ Answers(sent[s]) < MaxRequests
    /\ stream' = [stream EXCEPT ![s].item = request]
    /\ sent' = IF request.response_nonce = Empty /\ request.type_url = TypeCluster
               THEN [sent EXCEPT ![s] =
                        Append(@, ResponseOpr(s, stream[s].version_info, stream[s].config,
                                              "clusters", sent[s], "request"))]
               ELSE sent
    /\ UNCHANGED <<state, order, pc, replaced, reporter, uuid>>
    /\ UNCHANGED aux

\* Either::Right(c): when the Config differs from the one the stream sent
\* last, version_info += 1 and one response per type
WatchOpr(s) ==
    /\ stream[s].status = "open"
    /\ stream[s].seen # reporter.sends
    /\ LET c == reporter.tx
           n == stream[s].version_info + 1
       IN  IF stream[s].config # c
           THEN /\ stream' = [stream EXCEPT ![s].seen = reporter.sends,
                                            ![s].item = WatchItem("clusters"),
                                            ![s].version_info = n,
                                            ![s].config = c]
                /\ LET first == ResponseOpr(s, n, c, "clusters", sent[s], "watch")
                       second == ResponseOpr(s, n, c, "route_configurations",
                                             Append(sent[s], first), "watch")
                   IN  sent' = [sent EXCEPT ![s] = @ \o <<first, second>>]
           ELSE /\ stream' = [stream EXCEPT ![s].seen = reporter.sends,
                                            ![s].item = WatchItem("clusters")]
                /\ sent' = sent
    /\ UNCHANGED <<state, order, pc, replaced, reporter, uuid>>
    /\ UNCHANGED aux

\* service(): watch::channel(Arc::default())
InitOpr ==
    /\ state = [i \in {} |-> <<>>]
    /\ order = <<>>
    /\ pc = "recv"
    /\ replaced = [i |-> None, old |-> None]
    /\ reporter = [tx |-> ConfigDefault, sends |-> 0]
    /\ uuid = 0
    /\ stream = [s \in Clients |->
            [status |-> "idle", item |-> NoItem, seen |-> -1,
             version_info |-> 0, config |-> ConfigDefault]]
    /\ sent = [s \in Clients |-> <<>>]
    /\ InitUnfold
    /\ InitPool
    /\ InitMux

NextOpr ==
    \/ \E config \in Configs : SendOpr(config)
    \/ \E s \in Clients : ConnectOpr(s)
    \/ \E s \in Clients : \E request \in Requests(s) : RequestOpr(s, request)
    \/ \E s \in Clients : WatchOpr(s)

SpecOpr == InitOpr /\ [][NextOpr]_vars

(***************************************************************************)
(* Resolver::watch (control-plane/src/lb/resolver.rs), the wake-up and the *)
(* catch-up loop step by step, under a configuration whose second upstream *)
(* is given interval=0s.  The streams are polled by one task: while the    *)
(* loop of one stream runs, nothing else of the task does.                 *)
(***************************************************************************)
\* Upstream::interval as humantime_serde parsed it: 0s is a Duration
IntervalOf(i) == IF i = 1 THEN 0 ELSE interval(i)

\* upstream.interval * 4 / 5..=upstream.interval * 6 / 5
JitterOf(i) == (IntervalOf(i) * 4) \div 5 .. (IntervalOf(i) * 6) \div 5

\* no stream is inside its catch-up loop
Polling == \A j \in Upstreams : unfold[j].pc # "catchup"

\* tokio::time::sleep_until(instant.into()).await returns and
\* let now = Instant::now() is taken (kept in polled)
SleepUntilReturns(i) ==
    /\ Polling
    /\ unfold[i].pc = "sleep"
    /\ unfold[i].instant <= now
    /\ unfold' = [unfold EXCEPT ![i] =
            [@ EXCEPT !.pc = "catchup", !.tick = unfold[i].instant, !.polled = now]]
    /\ UNCHANGED <<lbVars, now, muxVars>>

\* while instant <= now { instant += rng.random_range(..) }: one iteration
CatchUpStep(i, d) ==
    /\ unfold[i].pc = "catchup"
    /\ unfold[i].instant <= unfold[i].polled
    /\ d \in JitterOf(i)
    /\ unfold' = [unfold EXCEPT ![i].instant = @ + d]
    /\ UNCHANGED <<lbVars, now, muxVars>>

\* the test of the loop fails: the cycle goes on to the lookup
CatchUpEnds(i) ==
    /\ unfold[i].pc = "catchup"
    /\ unfold[i].instant > unfold[i].polled
    /\ unfold' = [unfold EXCEPT ![i].pc = "lookup"]
    /\ UNCHANGED <<lbVars, now, muxVars>>

\* the streams of both upstreams and the update loop while the clock runs,
\* the lookups succeed and the backends answer their steady lists
NextCatchUp ==
    \/ Elapse
    \/ \E i \in Upstreams : SleepUntilReturns(i)
    \/ \E i \in Upstreams : \E d \in JitterOf(i) : CatchUpStep(i, d)
    \/ \E i \in Upstreams : CatchUpEnds(i)
    \/ \E i \in Upstreams : Polling /\ LookupIp(i, LookupOk(i), {})
    \/ \E i \in Upstreams :
          Polling /\ Emit(i, [ip \in Records(i) |-> Some(Served(i, ip))])
    \/ Polling /\ PublishRoutes

SpecCatchUp == Init /\ [][NextCatchUp]_vars

(***************************************************************************)
(* The single-upstream vLLM control plane (control-plane/src/vllm.rs,      *)
(* vllm/resolver.rs, vllm/generator.rs).  Its stream is the one of         *)
(* upstream 0: the sleep and the catch-up of its watch are those of        *)
(* lb/resolver.rs.  Here state holds, under key 0, the List the stream     *)
(* yielded last.                                                           *)
(***************************************************************************)
RunningName == "vllm:num_requests_running"
WaitingName == "vllm:num_requests_waiting"

\* u64::MAX
MaxU64 == Pow2(U64Bits) - 1

\* the number of bits of n
RECURSIVE BitLen(_)
BitLen(n) == IF n = 0 THEN 0 ELSE 1 + BitLen(n \div 2)

\* sample.number.parse::<f64>() of the decimal text of the integer n: the
\* nearest value with a significand of MantissaBits bits, ties to even
parse_f64(n) ==
    IF BitLen(n) <= MantissaBits THEN n
    ELSE LET unit == Pow2(BitLen(n) - MantissaBits)
             q == n \div unit
             r == n % unit
         IN  IF 2 * r > unit \/ (2 * r = unit /\ q % 2 = 1)
             THEN (q + 1) * unit ELSE q * unit

\* v as u64 of a non-negative f64: the cast saturates
as_u64(v) == IF v > MaxU64 THEN MaxU64 ELSE v

\* an accumulator that keeps the value of the last sample
get_or_insert_last(acc, v, checks) == [value |-> Some(v), panic |-> FALSE]

\* *acc.get_or_insert_default() += v as u64: on overflow the addition
\* panics in a build with overflow checks and wraps in one without
get_or_insert_default_add(acc, v, checks) ==
    LET sum == unwrap_or_default(acc) + v
    IN  IF sum <= MaxU64 THEN [value |-> Some(sum), panic |-> FALSE]
        ELSE IF checks THEN [value |-> acc, panic |-> TRUE]
        ELSE [value |-> Some(sum % (MaxU64 + 1)), panic |-> FALSE]

\* the fold of scrape_metrics over the samples of the exposition
RECURSIVE Fold(_, _, _)
Fold(acc, samples, checks) ==
    IF samples = <<>> \/ acc.panic THEN acc
    ELSE LET sample == Head(samples)
             v == as_u64(parse_f64(sample.number))
             running == get_or_insert_default_add(acc.running, v, checks)
             pending == get_or_insert_default_add(acc.pending, v, checks)
         IN  Fold(IF sample.metricname = RunningName
                  THEN [acc EXCEPT !.running = running.value, !.panic = running.panic]
                  ELSE IF sample.metricname = WaitingName
                  THEN [acc EXCEPT !.pending = pending.value, !.panic = pending.panic]
                  ELSE acc,
                  Tail(samples), checks)

\* Resolver::scrape_metrics on a body that was fetched and parsed
scrape_metrics(samples, checks) ==
    Fold([running |-> None, pending |-> None, panic |-> FALSE], samples, checks)

\* map_ok of try_join: the two sums written into every model of the list
Attach(models, running, pending) ==
    [k \in 1..Len(models) |->
        [id |-> models[k].id, running |-> running, pending |-> pending]]

\* Args.cluster_name
vllm_cluster_name == "vllm"

\* vllm::Generator::route_configuration: the list-models route and the
\* fallback route to the cluster
route_configuration_vllm(models) ==
    patch_max_direct_response_body_size_bytes(
        [name |-> route_config_name,
         virtual_hosts |-> <<
            [name |-> "local_service",
             domains |-> <<"*">>,
             routes |-> <<[match |-> [path |-> "/v1/models", method |-> "GET"],
                           action |-> "DirectResponse",
                           status |-> 200,
                           body |-> [object |-> "list", data |-> models]],
                          [match |-> [prefix |-> "/"],
                           action |-> "Route",
                           cluster |-> vllm_cluster_name]>>]>>,
         max_direct_response_body_size_bytes |-> None])

\* a join that puts the default in the place of an outcome that failed
join_or_default(models, metrics) ==
    Some([data |-> ModelsOrDefault(models),
          metrics |-> IF metrics = None
                      THEN [running |-> None, pending |-> None, panic |-> FALSE]
                      ELSE metrics[1]])

\* futures::future::try_join: Ok of both outcomes, or the Err of one (None)
try_join(models, metrics) ==
    IF models = None \/ metrics = None THEN None
    ELSE Some([data |-> models[1], metrics |-> metrics[1]])

\* try_join(self.list_models(), self.scrape_metrics()).await returns: models
\* and body are what the two GETs gave (None for a failed fetch or a body
\* that does not parse; list_models is taken to end first).  The output the
\* stream yields is kept in lookup: an Err (None) is dropped by filter_map,
\* an Ok is yielded to the loop of main, which hands the route configuration
\* to the Reporter.
JoinVllm(models, body, checks) ==
    /\ unfold[0].pc = "lookup"
    /\ pc = "recv"
    /\ LET metrics == IF body = None THEN None ELSE Some(scrape_metrics(body[1], checks))
           joined == try_join(models, metrics)
       IN  IF joined = None
           THEN /\ unfold' = [unfold EXCEPT ![0] = [@ EXCEPT !.pc = "sleep", !.lookup = None]]
                /\ UNCHANGED <<state, reporter, uuid>>
           ELSE IF joined[1].metrics.panic
           THEN /\ unfold' = [unfold EXCEPT ![0].pc = "panicked"]
                /\ UNCHANGED <<state, reporter, uuid>>
           ELSE LET item == Attach(joined[1].data, joined[1].metrics.running,
                                   joined[1].metrics.pending)
                    value == <<route_configuration_vllm(item)>>
                IN  /\ unfold' = [unfold EXCEPT ![0] =
                           [@ EXCEPT !.pc = "sleep", !.lookup = Some(item)]]
                    /\ state' = Insert(state, 0, item)
                    /\ reporter' = [reporter EXCEPT
                                        !.route_configurations = send(@, value, uuid)]
                    /\ uuid' = Minted(reporter.route_configurations, value, uuid)
    /\ UNCHANGED <<order, pc, replaced, stream, sent, now, muxVars>>

\* the samples of a /metrics body: the two gauges and another metric, with
\* values that are integers f64 holds or rounds, up to u64::MAX and past it
Numbers == {0, 1, Pow2(MantissaBits) + 1, MaxU64, MaxU64 + 1}
Samples == [metricname : {RunningName, WaitingName, "other"}, number : Numbers]

\* the bodies of at most two samples
Bodies == {<<>>} \cup {<<a>> : a \in Samples} \cup {<<a, b>> : a \in Samples, b \in Samples}

\* the first cycle of the stream, with any body
NextScrape ==
    \/ \E instant \in 1..(2 * interval(0)) : SleepUntil(0, instant)
    \/ \E models \in {None, Some(Served(0, 2))} : \E body \in {None} \cup {Some(b) : b \in Bodies} :
          \E checks \in BOOLEAN : JoinVllm(models, body, checks)

SpecScrape == Init /\ [][NextScrape]_vars

\* the cycles of the stream while the clock runs, each fetch failing or not,
\* and a client of the ADS
NextVllm ==
    \/ Elapse
    \/ \E instant \in 1..(MaxNow + 2 * interval(0)) : SleepUntil(0, instant)
    \/ \E models \in {None} \cup {Some(Served(0, ip)) : ip \in Records(0)} :
          \E body \in {None, Some(<<[metricname |-> WaitingName, number |-> 1]>>)} :
             uuid < MaxUuid /\ JoinVllm(models, body, TRUE)
    \/ \E s \in Streams : Connect(s)
    \/ \E s \in Streams : PollClusters(s)
    \/ \E s \in Streams : PollRouteConfigurations(s)

SpecVllm == Init /\ [][NextVllm]_vars

(***************************************************************************)
(* The control plane (control-plane/src) with several clients.             *)
(***************************************************************************)
\* the control plane with two clients, each on its own stream, pushed what
\* the Reporter publishes: the first one also subscribes to the clusters
\* and may go away, the second one stays; the loop receives the cycles of
\* upstream 1, whose lookup succeeds or fails
InitPair ==
    /\ state = [i \in {} |-> <<>>]
    /\ order = <<>>
    /\ pc = "recv"
    /\ replaced = [i |-> None, old |-> None]
    /\ reporter = [ch \in Channels |-> None]
    /\ uuid = 0
    /\ stream = [s \in Clients |->
            [status |-> "idle",
             item |-> NoItem,
             seen |-> [ch \in Channels |-> -1],
             at_connect |-> [ch \in Channels |-> 0]]]
    /\ sent = [s \in Clients |-> <<>>]
    /\ InitUnfold
    /\ InitPool
    /\ InitMux

NextPair ==
    \/ \E endpoints \in {<<>>} \cup Steady(1) :
          uuid < MaxUuid - 1 /\ Receive(1, endpoints)
    \/ PublishRoutes
    \/ \E s \in Clients : Connect(s)
    \/ Request("s1", RequestItem(TypeCluster, Empty, FALSE))
    \/ \E s \in Clients : PollClusters(s)
    \/ \E s \in Clients : PollRouteConfigurations(s)
    \/ RequestError("s1")
    \/ Disconnect("s1")

SpecPair == InitPair /\ [][NextPair]_vars

(***************************************************************************)
(* Properties of the Reporter and of the ADS streams.                      *)
(***************************************************************************)
\* the step of the update loop that publishes to channel ch
PublishesTo(ch) ==
    IF ch = "clusters" THEN pc = "recv" /\ pc' = "routes"
                       ELSE pc = "routes" /\ pc' = "recv"

\* the resources that step hands to the Reporter
Published(ch) ==
    IF ch = "clusters" THEN clusters(state') ELSE <<route_configuration(state, order)>>

\* the positions of log holding a response of the type of channel ch
OfType(log, ch) == {k \in 1..Len(log) : log[k].type_url = type_url(ch)}

\* the nonces of every response sent so far, on any stream
Nonces == UNION {{sent[s][k].nonce : k \in 1..Len(sent[s])} : s \in Streams}

\* C2: when a WatchStream of an open stream yields a newly published version
\* of a type, the stream sends exactly one DiscoveryResponse, whose
\* version_info is that version, whose resources are the resources the
\* channel holds, whose type_url is that type and whose nonce no response
\* carried before; no earlier push on the stream carried that version.
C2_PushOnNewVersion ==
    [][\A s \in Streams : \A ch \in Channels :
          (stream[s].status = "open" /\ stream'[s].seen[ch] # stream[s].seen[ch]
           /\ reporter[ch] # None)
          => /\ Len(sent'[s]) = Len(sent[s]) + 1
             /\ SubSeq(sent'[s], 1, Len(sent[s])) = sent[s]
             /\ Last(sent'[s]).version_info = reporter[ch][1].version_info
             /\ Last(sent'[s]).resources = reporter[ch][1].resources
             /\ Last(sent'[s]).type_url = type_url(ch)
             /\ Last(sent'[s]).nonce \notin Nonces
             /\ \A k \in OfType(sent[s], ch) :
                    sent[s][k].on = "watch"
                    => sent[s][k].version_info # Last(sent'[s]).version_info]_vars

\* a stream was pushed a version published after it connected
C2_Witness ==
    \E s \in Streams : \E ch \in Channels : \E k \in OfType(sent[s], ch) :
        /\ sent[s][k].on = "watch"
        /\ stream[s].at_connect[ch] # 0
        /\ sent[s][k].version_info > stream[s].at_connect[ch]

\* C3: a publish of resources equal to the held ones mints no version,
\* leaves the channel as it is and makes no WatchStream ready; a publish of
\* different resources, or the first publish, mints exactly one version and
\* the channel then holds that version with the published resources.  The
\* other channel is untouched either way.
C3_ReporterDedup ==
    [][\A ch \in Channels :
          PublishesTo(ch)
          => /\ IF reporter[ch] # None /\ reporter[ch][1].resources = Published(ch)
                THEN /\ uuid' = uuid
                     /\ reporter'[ch] = reporter[ch]
                     /\ \A s \in Streams : Ready(s, ch)' = Ready(s, ch)
                ELSE /\ uuid' = uuid + 1
                     /\ reporter'[ch] = Some([version_info |-> uuid + 1,
                                              resources |-> Published(ch)])
             /\ \A other \in Channels \ {ch} : reporter'[other] = reporter[other]]_vars

\* the loop has published the clusters of a snapshot equal to the one it
\* replaced, and the version of the clusters is not the newest one minted
C3_Witness ==
    /\ pc = "routes"
    /\ replaced.old # None
    /\ replaced.old[1] = state[replaced.i[1]]
    /\ reporter.clusters # None
    /\ VersionOf(reporter.clusters) < uuid

\* two snapshots of one upstream holding the same backends: the same
\* addresses, each with the same models and loads
SameBackends(a, b) == Len(a) = Len(b) /\ Range(a) = Range(b)

\* C4: when a resolver fires with the backend state it emitted before (the
\* same addresses, models and loads), neither publish of that iteration
\* changes a version, mints a Uuid or makes a WatchStream of any stream ready.
C4_IdenticalFiring ==
    [][/\ (pc = "recv" /\ pc' = "routes" /\ replaced'.old # None
           /\ SameBackends(replaced'.old[1], state'[replaced'.i[1]]))
          => /\ reporter' = reporter
             /\ uuid' = uuid
             /\ \A s \in Streams : \A ch \in Channels : Ready(s, ch)' = Ready(s, ch)
       /\ (pc = "routes" /\ pc' = "recv" /\ replaced.old # None
           /\ SameBackends(replaced.old[1], state[replaced.i[1]]))
          => /\ reporter' = reporter
             /\ uuid' = uuid
             /\ \A s \in Streams : \A ch \in Channels : Ready(s, ch)' = Ready(s, ch)]_vars

\* the item the stream handled in this step is a DiscoveryRequest with a
\* non-empty response_nonce
HandlesAck(s) ==
    /\ stream'[s].item # stream[s].item
    /\ stream'[s].item.kind = "request"
    /\ stream'[s].item.response_nonce # Empty

\* C5: a DiscoveryRequest with a non-empty response_nonce (ACK or NACK)
\* sends nothing; a stream sends only in answer to a request with an empty
\* response_nonce, or when a WatchStream yields a version it has not yielded
\* before, so an acknowledged or rejected version is not sent again until
\* the Reporter publishes.
C5_AckSendsNothing ==
    [][\A s \in Streams :
          /\ HandlesAck(s) => sent'[s] = sent[s]
          /\ sent'[s] # sent[s]
             => \/ /\ Last(sent'[s]).on = "request"
                   /\ stream'[s].item.kind = "request"
                   /\ stream'[s].item.response_nonce = Empty
                \/ /\ Last(sent'[s]).on = "watch"
                   /\ stream'[s].item.kind = "watch"
                   /\ \E ch \in Channels :
                        /\ type_url(ch) = Last(sent'[s]).type_url
                        /\ stream[s].seen[ch] # Last(sent'[s]).version_info]_vars

\* a stream has just handled a NACK of the response it sent last
C5_Witness ==
    \E s \in Streams :
        /\ sent[s] # <<>>
        /\ stream[s].item.kind = "request"
        /\ stream[s].item.response_nonce = Last(sent[s]).nonce
        /\ stream[s].item.error_detail

\* the responses of log of the type of channel ch built by arm `on`
Built(log, ch, on) == {k \in OfType(log, ch) : log[k].on = on}

\* C6: a stream opened while clusters are held, which got one answer to an
\* initial Cluster request and saw no later clusters version, has sent
\* exactly one Cluster response.
C6_OneInitialResponse ==
    \A s \in Streams :
        (/\ stream[s].status = "open"
         /\ stream[s].at_connect.clusters # 0
         /\ VersionOf(reporter.clusters) = stream[s].at_connect.clusters
         /\ Cardinality(Built(sent[s], "clusters", "request")) = 1)
        => Cardinality(OfType(sent[s], "clusters")) = 1

\* C7: on a stream, the responses of one type carry versions in publish
\* order: a later response never carries a version minted before the version
\* of an earlier one.
C7_VersionsInOrder ==
    \A s \in Streams : \A ch \in Channels :
        \A j \in OfType(sent[s], ch) : \A k \in OfType(sent[s], ch) :
            j < k => sent[s][j].version_info <= sent[s][k].version_info

\* a stream has sent two versions of one type, and a third response of that
\* type after them
C7_Witness ==
    \E s \in Streams : \E ch \in Channels :
        \E j \in OfType(sent[s], ch) : \E k \in OfType(sent[s], ch) :
            /\ j < k
            /\ sent[s][j].version_info < sent[s][k].version_info
            /\ \E l \in OfType(sent[s], ch) : k < l

\* stream s has sent version v of the type of channel ch
HasSent(s, ch, v) == \E k \in OfType(sent[s], ch) : sent[s][k].version_info = v

\* stream s, if open, has sent the version channel ch holds, if it holds one
Synced(s, ch) ==
    \/ stream[s].status # "open"
    \/ reporter[ch] = None
    \/ HasSent(s, ch, VersionOf(reporter[ch]))

\* C8: an open stream that keeps being polled is, again and again, one that
\* has sent the version each channel holds: when the Reporter publishes a
\* version and nothing after it, the stream sends that version, whatever
\* versions it skipped before.
C8_LatestDelivered ==
    \A s \in Streams : \A ch \in Channels : []<>Synced(s, ch)

\* a stream open since before the first publish has sent the version the
\* clusters channel holds, and never sent the version published before it
C8_Witness ==
    \E s \in Streams :
        /\ stream[s].status = "open"
        /\ stream[s].at_connect.clusters = 0
        /\ VersionOf(reporter.clusters) > 1
        /\ HasSent(s, "clusters", VersionOf(reporter.clusters))
        /\ ~HasSent(s, "clusters", 1)

(***************************************************************************)
(* Properties of the Generator, on what the update loop published from the *)
(* fleet state it holds.                                                   *)
(***************************************************************************)
\* the loop has published both resource lists of the fleet state it holds
Generated ==
    pc = "recv" /\ reporter.clusters # None /\ reporter.route_configurations # None

HeldClusters == reporter.clusters[1].resources
HeldRoutes == reporter.route_configurations[1].resources[1].virtual_hosts[1].routes

\* the per-model routes of the held route configuration
ModelRoutes == {k \in 1..Len(HeldRoutes) : HeldRoutes[k].action = "Route"}

\* the names of the WeightedCluster entries of route k
RoutedNames(k) ==
    {HeldRoutes[k].weighted_clusters[j].name :
        j \in 1..Len(HeldRoutes[k].weighted_clusters)}

\* the (upstream index, ip) pairs of the fleet state
Pairs == UNION {{<<i, state[i][k].ip>> : k \in 1..Len(state[i])} : i \in DOMAIN state}

\* the model list of the endpoint (i, ip) of the fleet state
ListOf(pair) ==
    LET k == CHOOSE k \in 1..Len(state[pair[1]]) : state[pair[1]][k].ip = pair[2]
    IN  state[pair[1]][k].models

\* the endpoints whose list holds model id m, and the ids of the fleet
Listing(m) == {pair \in Pairs : \E j \in 1..Len(ListOf(pair)) : ListOf(pair)[j].id = m}
FleetModelIds == UNION {{ListOf(pair)[j].id : j \in 1..Len(ListOf(pair))} : pair \in Pairs}

\* C9: every cluster name in a WeightedCluster entry of a per-model route is
\* the name of a cluster of the clusters list generated from the same fleet
\* state.
C9_RoutedClustersExist ==
    Generated
    => \A k \in ModelRoutes :
           RoutedNames(k) \subseteq {HeldClusters[c].name : c \in 1..Len(HeldClusters)}

\* a model is routed to endpoints of both upstreams while the clusters list
\* holds a cluster no route names
C9_Witness ==
    /\ Generated
    /\ \E k \in ModelRoutes :
          /\ Cardinality(RoutedNames(k)) >= 2
          /\ \A i \in Upstreams : cluster_name(i, 1) \in RoutedNames(k)
    /\ \E c \in 1..Len(HeldClusters) :
          \A k \in ModelRoutes : HeldClusters[c].name \notin RoutedNames(k)

\* C10: for every model id of the fleet state there is one per-model route,
\* and its WeightedCluster entries are one for each (upstream index, ip)
\* whose endpoint lists the model and none for any other endpoint.
C10_OneEntryPerServingEndpoint ==
    Generated
    => \A m \in FleetModelIds :
           /\ Cardinality({k \in ModelRoutes :
                  HeldRoutes[k].match.dynamic_metadata.exact = m}) = 1
           /\ \A k \in ModelRoutes :
                  HeldRoutes[k].match.dynamic_metadata.exact = m
                  => /\ Len(HeldRoutes[k].weighted_clusters) = Cardinality(Listing(m))
                     /\ RoutedNames(k) = {cluster_name(p[1], p[2]) : p \in Listing(m)}

\* a model is listed twice by one endpoint, once by another and not at all
\* by a third
C10_Witness ==
    /\ Generated
    /\ \E m \in FleetModelIds :
          /\ Cardinality(Listing(m)) = 2
          /\ Cardinality(Pairs) = 3
          /\ \E p \in Listing(m) :
                Cardinality({j \in 1..Len(ListOf(p)) : ListOf(p)[j].id = m}) = 2

(***************************************************************************)
(* The initial subscription, on the ADS of openai-proxy-control-plane.     *)
(***************************************************************************)
\* C1: when an open stream that has been handed the State the bus holds
\* receives a DiscoveryRequest with an empty response_nonce for Cluster or
\* for RouteConfiguration, it sends one DiscoveryResponse of that type with
\* the held version, the held resources of that type and a nonce no
\* response carried before.
C1_InitialRequestAnswered ==
    [][\A s \in Clients : \A ch \in Channels :
          (/\ stream[s].status = "open"
           /\ reporter.tx # None
           /\ stream[s].seen = VersionOf(reporter.tx)
           /\ stream'[s].item # stream[s].item
           /\ stream'[s].item = RequestItem(type_url(ch), Empty, FALSE))
          => /\ Len(sent'[s]) = Len(sent[s]) + 1
             /\ SubSeq(sent'[s], 1, Len(sent[s])) = sent[s]
             /\ Last(sent'[s]).type_url = type_url(ch)
             /\ Last(sent'[s]).version_info = VersionOf(reporter.tx)
             /\ Last(sent'[s]).resources = reporter.tx[1].resources[ch]
             /\ \A c \in Clients : \A k \in 1..Len(sent[c]) :
                    sent[c][k].nonce # Last(sent'[s]).nonce]_vars


(***************************************************************************)
(* The weights of the per-model routes.                                    *)
(***************************************************************************)
\* the positions of the list of endpoint `pair` holding model id m
SampleIdx(pair, m) == {j \in 1..Len(ListOf(pair)) : ListOf(pair)[j].id = m}

\* the pending sample of position j of the list of `pair`, a missing one is 0
PendingAt(pair, j) ==
    IF ListOf(pair)[j].pending = None THEN 0 ELSE ListOf(pair)[j].pending[1]

\* P_max of model m: the largest sample over the endpoints listing m
PMax(m) ==
    LET S == UNION {{PendingAt(p, j) : j \in SampleIdx(p, m)} : p \in Listing(m)}
    IN  CHOOSE x \in S : \A y \in S : y <= x

\* the sum over the samples p_k of `pair` for m of floor((1 + P_max) / (1 + p_k))
ExpectedWeight(pair, m) ==
    SeqSum([j \in 1..Len(ListOf(pair)) |->
                IF j \in SampleIdx(pair, m)
                THEN (1 + PMax(m)) \div (1 + PendingAt(pair, j)) ELSE 0])

\* the model id route k matches
RouteModel(k) == HeldRoutes[k].match.dynamic_metadata.exact

\* the weight route k gives the endpoint `pair` (0 when it has no entry)
WeightOf(k, pair) ==
    LET entries == HeldRoutes[k].weighted_clusters
        at == {j \in 1..Len(entries) : entries[j].name = cluster_name(pair[1], pair[2])}
    IN  IF at = {} THEN 0 ELSE entries[CHOOSE j \in at : TRUE].weight

\* C11: in every per-model route, with P_max the largest pending sample over
\* the endpoints the route names (a missing pending counted as 0), the weight
\* of each endpoint is the sum over its samples p_k of
\* floor((1 + P_max) / (1 + p_k)).
C11_WeightFormula ==
    Generated
    => \A k \in ModelRoutes : \A p \in Listing(RouteModel(k)) :
           WeightOf(k, p) = ExpectedWeight(p, RouteModel(k))

\* a route gives weight 3 to an endpoint with two samples, 0 and 1, while
\* another endpoint of the route has one sample
C11_Witness ==
    /\ Generated
    /\ \E k \in ModelRoutes : \E p \in Listing(RouteModel(k)) :
          /\ Cardinality(SampleIdx(p, RouteModel(k))) = 2
          /\ {PendingAt(p, j) : j \in SampleIdx(p, RouteModel(k))} = {0, 1}
          /\ WeightOf(k, p) = 3
          /\ \E q \in Listing(RouteModel(k)) :
                q # p /\ Cardinality(SampleIdx(q, RouteModel(k))) = 1


\* the one sample of an endpoint that lists model m once
Sample(pair, m) == PendingAt(pair, CHOOSE j \in SampleIdx(pair, m) : TRUE)

\* every endpoint of route k reports one pending value for its model
OneSampleEach(k) ==
    \A p \in Listing(RouteModel(k)) : Cardinality(SampleIdx(p, RouteModel(k))) = 1

\* every endpoint of route k other than e reports pending 0 (or none)
OthersIdle(k, e) ==
    \A o \in Listing(RouteModel(k)) \ {e} : Sample(o, RouteModel(k)) = 0

C13_WeightsPositive ==
    Generated
    => \A k \in ModelRoutes : \A j \in 1..Len(HeldRoutes[k].weighted_clusters) :
           HeldRoutes[k].weighted_clusters[j].weight >= 1


(***************************************************************************)
(* The list-models route and the determinism of the Generator.             *)
(***************************************************************************)
\* the data of the body of the held list-models route
HeldData == HeldRoutes[1].body.data

\* C14: the resources the Generator returns for the fleet state do not
\* depend on the iteration order of the map that holds it: whatever order
\* the map iterates in, clusters() and route_configuration() return the
\* resources the loop published, the body of the list-models route included.
C14_GeneratorDeterministic ==
    Generated
    => \A ord \in Orders(DOMAIN state) :
           /\ clusters(state) = HeldClusters
           /\ <<route_configuration(state, ord)>>
                  = reporter.route_configurations[1].resources

\* C15: the data of the list-models body holds every model id of the fleet,
\* each id once, in ascending order of id.
C15_ModelsListDeduplicated ==
    Generated
    => /\ {HeldData[k].id : k \in 1..Len(HeldData)} = FleetModelIds
       /\ \A j \in 1..Len(HeldData) : \A k \in 1..Len(HeldData) :
              j < k => HeldData[j].id < HeldData[k].id


(***************************************************************************)
(* The clusters list and the names of the clusters.                        *)
(***************************************************************************)
\* the port of the URI of upstream i, 80 when it has none
PortOf(i) == IF upstream[i].port = None THEN 80 ELSE upstream[i].port[1]

\* the held clusters that are the cluster of endpoint `pair`
ClustersOf(pair) ==
    {c \in 1..Len(HeldClusters) :
        /\ HeldClusters[c].name = cluster_name(pair[1], pair[2])
        /\ HeldClusters[c].cluster_discovery_type = "STATIC"
        /\ HeldClusters[c].load_assignment.endpoints = <<<<pair[2], PortOf(pair[1])>>>>}

\* C16: the clusters list holds exactly one cluster for each (i, ip) of the
\* fleet state, whether or not the endpoint lists a model, and nothing else
\* (none for an upstream that is absent or mapped to []); each cluster is
\* STATIC with the single endpoint (ip, port of upstream i or 80), and the
\* list is in ascending order of name.
C16_OneClusterPerEndpoint ==
    Generated
    => /\ Len(HeldClusters) = Cardinality(Pairs)
       /\ \A p \in Pairs : Cardinality(ClustersOf(p)) = 1
       /\ \A j \in 1..Len(HeldClusters) : \A k \in 1..Len(HeldClusters) :
              j < k => HeldClusters[j].name[2] < HeldClusters[k].name[2]

\* upstream 0 has two endpoints, one of them without models, upstream 1 is
\* mapped to [], and the clusters are the two of upstream 0
C16_Witness ==
    /\ Generated
    /\ DOMAIN state = Upstreams
    /\ state[1] = <<>>
    /\ Len(state[0]) = 2
    /\ \E p \in Pairs : ListOf(p) = <<>>
    /\ Len(HeldClusters) = 2

\* the name of the cluster of (upstream index, ip)
NameOf(pair) == <<"cluster_", Sha224(<<pair[1], ":", pair[2]>>)>>

\* every (upstream index, ip) the resolvers can report
AllPairs == UNION {{<<i, ip>> : ip \in Records(i)} : i \in Upstreams}

\* C17: the name of a cluster is a function of (upstream index, ip) alone:
\* whatever the models, the load, the port and http2_only of the endpoint
\* and the cycle, the cluster of (i, ip) and every WeightedCluster entry for
\* (i, ip) carry the one name of (i, ip), and two different pairs have
\* different names.
C17_NameOfPairOnly ==
    /\ \A p \in AllPairs : \A q \in AllPairs :
           p # q => cluster_name(p[1], p[2]) # cluster_name(q[1], q[2])
    /\ Generated
       => /\ \A c \in 1..Len(HeldClusters) : \E p \in Pairs :
                 /\ HeldClusters[c].load_assignment.endpoints = <<<<p[2], PortOf(p[1])>>>>
                 /\ HeldClusters[c].name = NameOf(p)
                 /\ HeldClusters[c].load_assignment.cluster_name = NameOf(p)
          /\ \A k \in ModelRoutes :
                 RoutedNames(k) = {NameOf(p) : p \in Listing(RouteModel(k))}

\* the same address is an endpoint of both upstreams, with different models,
\* ports and http2_only, and one route names both clusters
C17_Witness ==
    /\ Generated
    /\ {<<0, 1>>, <<1, 1>>} \subseteq Pairs
    /\ ListOf(<<0, 1>>) # ListOf(<<1, 1>>)
    /\ \E k \in ModelRoutes : {NameOf(<<0, 1>>), NameOf(<<1, 1>>)} \subseteq RoutedNames(k)


(***************************************************************************)
(* Cycles whose lookup or probes fail.                                     *)
(***************************************************************************)
\* the names of the clusters of the endpoints of the upstreams of st other
\* than i
NamesButOf(st, i) ==
    UNION {{NameOf(<<j, st[j][k].ip>>) : k \in 1..Len(st[j])} : j \in DOMAIN st \ {i}}

\* C18: when the lookup of upstream i fails in a cycle, the resolver stream
\* still yields a snapshot, the empty one: after the loop received it the
\* fleet state maps i to [], whatever it held for i before, the entries of
\* the other upstreams are as they were, the clusters list the Reporter
\* holds is made of the clusters of the other upstreams alone, and the loop
\* goes on to publish the routes.
C18_DnsFailureEmptiesUpstream ==
    [][\A i \in Upstreams : \A probes \in list_models(i) :
          Cycle(i, None, probes)
          => /\ i \in DOMAIN state' /\ state'[i] = <<>>
             /\ \A j \in DOMAIN state \ {i} : state'[j] = state[j]
             /\ reporter'.clusters # None
             /\ {reporter'.clusters[1].resources[c].name :
                    c \in 1..Len(reporter'.clusters[1].resources)} = NamesButOf(state, i)
             /\ Len(reporter'.clusters[1].resources) = Cardinality(NamesButOf(state, i))
             /\ pc' = "routes"]_vars

\* the loop has just replaced the endpoints of an upstream by [] while
\* another upstream has endpoints, whose clusters are the ones held
C18_Witness ==
    /\ pc = "routes"
    /\ replaced.i # None /\ replaced.old # None
    /\ replaced.old[1] # <<>>
    /\ state[replaced.i[1]] = <<>>
    /\ \E j \in DOMAIN state :
          /\ state[j] # <<>>
          /\ reporter.clusters # None
          /\ Len(HeldClusters) = Len(state[j])


\* a cycle of the resolver of control-plane with a successful lookup: every
\* address of the lookup has its Endpoint, in the order of the lookup, with
\* no models when its probe failed and with the models the backend listed
\* otherwise
LbProbeFailureEmptiesModels ==
    [][\A i \in Upstreams : \A lookup \in lookup_ip(i) \ {None} :
          \A probes \in list_models(i) :
              Cycle(i, lookup, probes)
              => /\ Len(state'[i]) = Len(lookup[1])
                 /\ \A k \in 1..Len(lookup[1]) :
                        /\ state'[i][k].ip = lookup[1][k]
                        /\ state'[i][k].models =
                              IF probes[lookup[1][k]] = None THEN <<>>
                              ELSE Served(i, lookup[1][k])]_vars

\* C19: in a cycle with a successful lookup, every resolved address has its
\* Endpoint in the snapshot; an address one of whose probes failed (the
\* models probe or the load probe) has an empty model list, and an address
\* whose probes succeeded has the models its backend listed.
C19_ProbeFailureEmptiesModels ==
    [][\A i \in Upstreams : \A lookup \in lookup_ip(i) \ {None} :
          \A probes \in list_models(i) : \A metrics \in active_requests_vllm(i) :
              YieldOcp(i, lookup, probes, metrics)
              => /\ Len(state'[i]) = Len(lookup[1])
                 /\ \A k \in 1..Len(lookup[1]) :
                        /\ state'[i][k].ip = lookup[1][k]
                        /\ state'[i][k].models =
                              IF probes[lookup[1][k]] = None \/ metrics[lookup[1][k]] = None
                              THEN <<>>
                              ELSE Served(i, lookup[1][k])]_vars


\* the lookup or a probe of an address it returned failed
Failed(lookup, probes) ==
    lookup = None \/ \E k \in 1..Len(lookup[1]) : probes[lookup[1][k]] = None

\* the names of the clusters a channel value holds
HeldNames(held) == {held[1].resources[c].name : c \in 1..Len(held[1].resources)}

\* every upstream of the fleet state has endpoints, each with models: the
\* last cycle of each succeeded
AllGood ==
    \A j \in DOMAIN state :
        state[j] # <<>> /\ \A k \in 1..Len(state[j]) : state[j][k].models # <<>>

\* C20 as stated: a cycle whose lookup or probe fails, received while the
\* Reporter holds the resources of successful cycles, ends no stream and
\* leaves the resources the Reporter holds as they are.
C20_LastKnownGoodKept ==
    [][(pc' # pc /\ AllGood /\ reporter.clusters # None)
          => \A i \in Upstreams : \A lookup \in lookup_ip(i) : \A probes \in list_models(i) :
                 (Failed(lookup, probes) /\ Cycle(i, lookup, probes))
                 => /\ \A s \in Streams : stream'[s].status = stream[s].status
                    /\ reporter' = reporter]_vars

\* C20, amended: a cycle whose lookup or probe fails ends no stream and
\* sends nothing, and a stream ends with an error only in a step that is not
\* a step of the update loop; the snapshot of the failed cycle replaces the
\* earlier one: the Reporter then holds the clusters of the addresses the
\* lookup returned (none when it failed) and of the other upstreams, and
\* what a stream sends afterwards is what the Reporter holds.
C20_FailedCycleServed ==
    [][/\ pc' # pc
          => \A i \in Upstreams : \A lookup \in lookup_ip(i) : \A probes \in list_models(i) :
                 (Failed(lookup, probes) /\ Cycle(i, lookup, probes))
                 => /\ stream' = stream
                    /\ sent' = sent
                    /\ reporter'.clusters # None
                    /\ HeldNames(reporter'.clusters)
                          = NamesButOf(state, i)
                            \cup {NameOf(<<i, ip>>) : ip \in Resolved(lookup)}
       /\ \A s \in Streams :
             (stream'[s].status = "error" /\ stream[s].status # "error")
             => pc' = pc /\ state' = state /\ reporter' = reporter
       /\ \A s \in Streams :
             sent'[s] # sent[s]
             => \E ch \in Channels :
                    /\ Last(sent'[s]).type_url = type_url(ch)
                    /\ reporter[ch] # None
                    /\ Last(sent'[s]).resources = reporter[ch][1].resources]_vars

\* an open stream was pushed the clusters of a successful cycle and then,
\* after the lookup of that upstream failed, the shorter list the Reporter
\* holds now
C20_Witness ==
    /\ reporter.clusters # None
    /\ \E i \in DOMAIN state : state[i] = <<>>
    /\ \E s \in Streams :
          /\ stream[s].status = "open"
          /\ \E j \in OfType(sent[s], "clusters") : \E k \in OfType(sent[s], "clusters") :
                /\ j < k
                /\ Len(sent[s][k].resources) < Len(sent[s][j].resources)
                /\ sent[s][k].resources = HeldClusters

(***************************************************************************)
(* Properties of the resolver streams: timeouts, independence of the       *)
(* upstreams and the jittered deadline.                                    *)
(***************************************************************************)
\* the stream of upstream i is in the middle of a cycle
Blocked(i) == unfold[i].pc \in {"lookup", "probe"}

\* the stream of upstream i starts a cycle in this step
Polls(i) == unfold[i].pc = "sleep" /\ unfold'[i].pc = "lookup"

\* a duration lies within [0.8 * I, 1.2 * I] for the interval I of upstream i
WithinJitter(i, d) == 4 * interval(i) <= 5 * d /\ 5 * d <= 6 * interval(i)

\* C21: every started polling cycle eventually emits its snapshot, because
\* every probe has a bounded timeout: whenever the probes of a cycle are in
\* flight there is a way for all of them to end (an answer, an error or the
\* timeout), so that the stream can emit, also when a backend accepted the
\* connection and never answers.
C21_ProbesBounded ==
    \A i \in Upstreams : unfold[i].pc = "probe" => Outcomes(i) # {}

\* C22: upstreams are polled independently: while a cycle of upstream i is
\* blocked in its lookup or its probes, the stream of another upstream j
\* whose probes can end yields its snapshot to the waiting loop, which
\* applies it, whatever the state of the stream of i.
C22_PolledIndependently ==
    \A i \in Upstreams : \A j \in Upstreams \ {i} :
        (Blocked(i) /\ unfold[j].pc = "probe" /\ pc = "recv")
        => \A probes \in Outcomes(j) : ENABLED Yield(j, probes)

\* the cycle of upstream 0 is stuck on a silent backend, and the snapshot of
\* upstream 1 was applied, run through the Generator and published meanwhile
C22_Witness ==
    /\ unfold[0].pc = "probe"
    /\ Outcomes(0) = {}
    /\ DOMAIN state = {1}
    /\ state[1] # <<>>
    /\ pc = "recv"
    /\ reporter.clusters # None
    /\ reporter.route_configurations # None
    /\ HeldNames(reporter.clusters) = {NameOf(<<1, ip>>) : ip \in Records(1)}

\* C23 as stated: each next tick lies one delay d with 4/5 * I <= d <= 6/5 * I
\* after the previous tick, and consecutive polls of an upstream are spaced
\* within [0.8 * I, 1.2 * I].
C23_SpacingWithinJitter ==
    [][\A i \in Upstreams :
          Polls(i)
          => /\ WithinJitter(i, unfold'[i].instant - unfold[i].instant)
             /\ unfold[i].polled >= 0 => WithinJitter(i, now - unfold[i].polled)]_vars

\* C23, amended: a poll that starts less than 4/5 * I after its tick places
\* the next tick one delay d with 4/5 * I <= d <= 6/5 * I after that tick; a
\* later poll adds several delays, and the next tick always lies after now,
\* at most 6/5 * I after it and at least 4/5 * I after the previous tick.
\* Two consecutive polls that both start on their ticks are spaced within
\* [0.8 * I, 1.2 * I].
C23_JitterOnTime ==
    [][\A i \in Upstreams :
          Polls(i)
          => /\ 5 * (now - unfold[i].instant) < 4 * interval(i)
                => WithinJitter(i, unfold'[i].instant - unfold[i].instant)
             /\ unfold'[i].instant > now
             /\ 5 * (unfold'[i].instant - now) <= 6 * interval(i)
             /\ 5 * (unfold'[i].instant - unfold[i].instant) >= 4 * interval(i)
             /\ (unfold[i].polled >= 0 /\ unfold[i].polled = unfold[i].tick
                   /\ now = unfold[i].instant)
                => WithinJitter(i, now - unfold[i].polled)]_vars

\* a poll that started on its jittered tick, after an earlier one, and has
\* placed the next tick
C23_Witness ==
    \E i \in Upstreams :
        /\ unfold[i].pc = "lookup"
        /\ unfold[i].tick > 0
        /\ unfold[i].polled = unfold[i].tick
        /\ unfold[i].instant > now

\* C24: when the scheduler of an upstream fell behind, it adds jittered
\* delays until the next tick lies after now, so that missed slots are
\* skipped: time passes between any two polls of one upstream, there is no
\* burst of polls to make up for missed ticks.
C24_NoBurst ==
    [][\A i \in Upstreams :
          Polls(i)
          => /\ unfold'[i].instant > now
             /\ unfold[i].polled >= 0 => now > unfold[i].polled]_vars

\* a poll that started more than 6/5 * I after its tick, which was not the
\* first one: at least one whole slot was missed
C24_Witness ==
    \E i \in Upstreams :
        /\ unfold[i].pc = "lookup"
        /\ unfold[i].polled = now
        /\ unfold[i].tick > 0
        /\ 5 * (now - unfold[i].tick) > 6 * interval(i)
        /\ unfold[i].instant > now

(***************************************************************************)
(* Properties of the direct proxy and of its pool of clients.              *)
(***************************************************************************)
\* the body is JSON with a top-level string field model
HasModel(body) == body.kind = "object" /\ body.items # <<>> /\ body.items[1].string

\* the request in hand
Req == exchange.request[1]

\* a tunnel handler has just run
Tunnelled == exchange.pc # "sent" /\ exchange' # exchange

\* no backend of the fleet the handler reads serves the model
Unserved(via, model) ==
    IF via = "mux" THEN Serving(backends(fleet), model) = <<>>
    ELSE \A i \in Upstreams :
            \A k \in 1..Len(ModelsOrDefault(listed[i])) : listed[i][1][k].id # model

\* the answer is the error envelope with the status code
Envelope(answer, code) ==
    /\ answer # None
    /\ answer[1].status = code
    /\ answer[1].body.object = "error"
    /\ answer[1].body.code = code

\* C25: in the tunnel handlers of the direct proxy (mux.rs, main.rs), a
\* request whose body is not JSON with a top-level string field model is
\* answered 400 with the error envelope and forwarded to no backend, and a
\* request naming a model no backend of the fleet serves is answered 404
\* with the error envelope and forwarded to no backend.
C25_RefusedWithStatus ==
    [][(Tunnelled /\ exchange.via \in {"mux", "main"})
       => LET request == exchange'.request[1]
          IN  /\ ~HasModel(request.body)
                 => /\ exchange'.pc = "done"
                    /\ exchange'.outbound = <<>>
                    /\ Envelope(exchange'.response, 400)
              /\ (HasModel(request.body) /\ Unserved(exchange.via, request.body.items[1].v))
                 => /\ exchange'.pc = "done"
                    /\ exchange'.outbound = <<>>
                    /\ Envelope(exchange'.response, 404)]_vars

\* C26: a request the mux forwards goes to a backend of the fleet read for
\* it whose model list holds the requested id, and every backend serving the
\* model can be the one picked (the pick depends on the fleet alone, and
\* every fleet is reached before the first request: it is stated there).
C26_ForwardedToServing ==
    /\ (exchange.via = "mux" /\ exchange.pc = "sent")
       => /\ exchange.backend # None
          /\ exchange.backend[1] \in Range(exchange.found)
          /\ \E k \in 1..Len(exchange.backend[1].models) :
                exchange.backend[1].models[k].id = from_slice(Req.body)[1]
          /\ exchange.outbound[1].uri.authority
                = config_uri(exchange.backend[1].config).authority
    /\ (exchange.via = "mux" /\ exchange.pc = "idle")
       => \A request \in Inbound :
             from_slice(request.body) # None
             => \A k \in 1..Len(Serving(backends(fleet), from_slice(request.body)[1])) :
                   ENABLED TunnelMux(request, k)

\* two backends served the model and the request went to the second
C26_Witness ==
    /\ exchange.via = "mux"
    /\ exchange.pc = "sent"
    /\ Len(exchange.found) = 2
    /\ exchange.backend = Some(exchange.found[2])
    /\ exchange.found[1] # exchange.found[2]

\* C27: the direct proxy (mux.rs, azure.rs) makes one upstream attempt per
\* client request, no retry and no second backend; when the attempt fails
\* the client gets 502 with the error envelope.
C27_OneAttempt ==
    [][(exchange.pc = "sent" /\ exchange' # exchange /\ exchange.via \in {"mux", "azure"})
       => /\ exchange'.pc = "done"
          /\ Len(exchange.outbound) = 1
          /\ exchange'.outbound = exchange.outbound
          /\ exchange'.response = Some(Incoming) \/ Envelope(exchange'.response, 502)
          /\ Respond(FALSE) => Envelope(exchange'.response, 502)]_vars

\* the one attempt of a request of the mux failed and the client got 502
C27_Witness ==
    /\ exchange.via = "mux"
    /\ exchange.pc = "done"
    /\ Len(exchange.outbound) = 1
    /\ Envelope(exchange.response, 502)

KeysOf(cache) == [k \in 1..Len(cache) |-> cache[k].key]

\* C29: the cache never holds more than CACHE_CAP entries; a lookup makes
\* its key the most recently used, keeps the order of the others, and when
\* the key is new and the cache full drops the least recently used entry.
C29_BoundedLru ==
    [][/\ Len(pool'.cache) <= CACHE_CAP
       /\ \A options \in Keys :
             PoolService(options)
             => LET k == Position(pool.cache, options)
                    old == KeysOf(pool.cache)
                IN  /\ pool'.cache[1].key = options
                    /\ k > 0 => Tail(KeysOf(pool'.cache)) = Without(old, k)
                    /\ (k = 0 /\ Len(old) < CACHE_CAP) => Tail(KeysOf(pool'.cache)) = old
                    /\ (k = 0 /\ Len(old) = CACHE_CAP)
                       => Tail(KeysOf(pool'.cache)) = SubSeq(old, 1, Len(old) - 1)]_vars

\* the cache is full and a client built after it filled is at its head: an
\* entry was evicted
C29_Witness ==
    /\ Len(pool.cache) = CACHE_CAP
    /\ pool.cache[1].client > CACHE_CAP
    /\ pool.built > CACHE_CAP

\* C30: a pool entry is reused: a lookup of a cached key returns the client
\* the cache holds for it, which stays in the cache, and builds nothing; a
\* client is built only on a lookup of an absent key, and no key is cached
\* twice.
C30_EntryReused ==
    [][/\ \A j \in 1..Len(pool'.cache) : \A k \in 1..Len(pool'.cache) :
             j # k => /\ pool'.cache[j].key # pool'.cache[k].key
                      /\ pool'.cache[j].client # pool'.cache[k].client
       /\ \A options \in Keys :
             PoolService(options)
             => IF Position(pool.cache, options) > 0
                THEN /\ pool'.built = pool.built
                     /\ pool'.handle = Some(ClientOf(pool.cache, options))
                     /\ ClientOf(pool'.cache, options) = ClientOf(pool.cache, options)
                ELSE /\ pool'.built = pool.built + 1
                     /\ pool'.handle = Some(pool.built + 1)
                     /\ ClientOf(pool'.cache, options) = pool.built + 1]_vars

\* a lookup has just returned a client built before the latest one: the
\* entry of its key was reused and moved to the head
C30_Witness ==
    /\ pool.handle # None
    /\ pool.handle[1] < pool.built
    /\ pool.cache[1].client = pool.handle[1]
    /\ Len(pool.cache) > 1

(***************************************************************************)
(* Properties of the control plane with several clients.                   *)
(***************************************************************************)
\* the responses sent so far, each by its stream and its position
Pushes == UNION {{<<s, k>> : k \in 1..Len(sent[s])} : s \in Clients}

\* the response of a push
PushOf(p) == sent[p[1]][p[2]]

\* C31: every DiscoveryResponse sent on any stream carries a nonce no other
\* response ever sent carries, on the same stream or on another one, also
\* when the two responses carry the same version_info.
C31_NoncesDistinct ==
    \A p \in Pushes : \A q \in Pushes :
        p # q => PushOf(p).nonce # PushOf(q).nonce

\* one version of the clusters was sent twice on one stream (in answer to
\* the initial request and as a push) and once on the other stream
C31_Witness ==
    \E p \in Pushes : \E q \in Pushes : \E r \in Pushes :
        /\ p[1] = q[1] /\ p[2] < q[2] /\ r[1] # p[1]
        /\ PushOf(p).type_url = TypeCluster
        /\ PushOf(q).type_url = TypeCluster
        /\ PushOf(r).type_url = TypeCluster
        /\ PushOf(p).version_info = PushOf(q).version_info
        /\ PushOf(p).version_info = PushOf(r).version_info

\* C32: any two DiscoveryResponses of one type that carry the same
\* version_info, on one stream or on two, carry the same resources, and a
\* stream of openai-proxy-resolver moves to a new version only when the
\* Config differs from the one it sent last.
C32_VersionNamesContents ==
    [][/\ \A p \in Pushes' : \A q \in Pushes' :
             (/\ PushOf(p)'.type_url = PushOf(q)'.type_url
              /\ PushOf(p)'.version_info = PushOf(q)'.version_info)
             => PushOf(p)'.resources = PushOf(q)'.resources
       /\ \A s \in Clients :
             (stream[s].status = "open" /\ stream'[s].status = "open"
              /\ stream'[s].version_info # stream[s].version_info)
             => reporter.tx # stream[s].config]_vars


\* C34: a step that ends a stream (the client disconnects, or the inbound
\* stream fails) leaves unchanged what the bus holds, the versions minted, the
\* state the update loop publishes from and its position, the responses sent
\* so far, and every other stream: its status, its position on both channels
\* and whether an update is ready for it.
C34_EndsOnlyThatStream ==
    [][\A s \in Clients :
          (stream[s].status = "open" /\ stream'[s].status \in {"closed", "error"})
          => /\ reporter' = reporter
             /\ uuid' = uuid
             /\ <<state, order, pc, replaced>>' = <<state, order, pc, replaced>>
             /\ sent' = sent
             /\ \A t \in Clients \ {s} :
                   /\ stream'[t] = stream[t]
                   /\ \A ch \in Channels : Ready(t, ch)' = Ready(t, ch)]_vars

\* the first client is gone, and the second, still open, was sent a version
\* of the routes the first never was
C34_Witness ==
    /\ stream["s1"].status \in {"closed", "error"}
    /\ stream["s2"].status = "open"
    /\ \E k \in 1..Len(sent["s2"]) :
          /\ sent["s2"][k].type_url = TypeRouteConfiguration
          /\ \A j \in 1..Len(sent["s1"]) :
                sent["s1"][j].version_info # sent["s2"][k].version_info

\* C35: the fleet state starts without entries; receiving the snapshot a
\* resolver stream emitted gives the fleet state an entry for its upstream
\* that is that snapshot, whatever the entry was before, and leaves the
\* entries of the other upstreams as they were; and the fleet state changes
\* in no other step, so that an upstream has an entry exactly when its
\* resolver has emitted, and the entry is the snapshot it emitted last.
C35_EntryIsLastEmitted ==
    /\ DOMAIN state = {}
    /\ [][/\ \A i \in Upstreams : \A lookup \in lookup_ip(i) : \A probes \in list_models(i) :
               Cycle(i, lookup, probes)
               => /\ DOMAIN state' = DOMAIN state \cup {i}
                  /\ state'[i] = WatchCycle(lookup, probes)
                  /\ \A j \in DOMAIN state \ {i} : state'[j] = state[j]
          /\ state' # state
               => \E i \in Upstreams : \E lookup \in lookup_ip(i) : \E probes \in list_models(i) :
                     Cycle(i, lookup, probes)]_vars

\* the loop has just replaced the endpoints of upstream 0 by other ones, no
\* more than its addresses, while upstream 1 keeps its endpoints
C35_Witness ==
    /\ pc = "routes"
    /\ replaced.i = Some(0) /\ replaced.old # None
    /\ replaced.old[1] # <<>>
    /\ state[0] # <<>> /\ state[0] # replaced.old[1]
    /\ Len(state[0]) <= Cardinality(Records(0))
    /\ 1 \in DOMAIN state /\ state[1] # <<>>

\* the cluster names the WeightedCluster entries of a list of route
\* configurations refer to
Referred(resources) ==
    UNION {UNION {UNION {{r.weighted_clusters[j].name : j \in 1..Len(r.weighted_clusters)} :
                            r \in {vh.routes[k] : k \in {k \in 1..Len(vh.routes) :
                                        "weighted_clusters" \in DOMAIN vh.routes[k]}}} :
                     vh \in Range(rc.virtual_hosts)} :
              rc \in Range(resources)}

\* the names of a list of clusters
Named(resources) == {resources[c].name : c \in 1..Len(resources)}

\* the last response of the type of channel ch in log
LatestOf(log, ch) == log[SeqMax([k \in 1..Len(log) |-> IF k \in OfType(log, ch) THEN k ELSE 0])]

\* C37: whenever the bus holds a route configuration and a cluster list, every
\* cluster name a WeightedCluster of the held route configuration refers to
\* is the name of a held cluster; and on every stream that was sent both
\* types, every name the latest route configuration sent refers to is the
\* name of a cluster of the latest cluster list sent.
C37_RoutesReferHeldClusters ==
    /\ (reporter.clusters # None /\ reporter.route_configurations # None)
          => Referred(reporter.route_configurations[1].resources)
                \subseteq Named(reporter.clusters[1].resources)
    /\ \A s \in Streams :
          (OfType(sent[s], "clusters") # {} /\ OfType(sent[s], "route_configurations") # {})
          => Referred(LatestOf(sent[s], "route_configurations").resources)
                \subseteq Named(LatestOf(sent[s], "clusters").resources)

\* stream s has sent a response of the type of channel ch from its watch arm
Pushed(s, ch) == \E k \in OfType(sent[s], ch) : sent[s][k].on = "watch"

\* C38: an initial request for a type of which nothing was published yet
\* sends no response and leaves the stream open; and an open stream that
\* keeps being polled has, once the channel of a type holds a value, sent a
\* response of that type from its watch arm, whether or not the client sends
\* another request.
C38_FirstPublishPushed ==
    /\ [][\A s \in Streams : \A ch \in Channels :
             (reporter[ch] = None /\ Request(s, RequestItem(type_url(ch), Empty, FALSE)))
             => sent' = sent /\ stream'[s].status = "open"]_vars
    /\ \A s \in Streams : \A ch \in Channels :
          []<>(stream[s].status # "open" \/ reporter[ch] = None \/ Pushed(s, ch))

\* a stream open since before the first publish was pushed the clusters and
\* answered no request, and its initial request for the routes, of which
\* nothing is published yet, is the last item it took
C38_Witness ==
    \E s \in Streams :
        /\ stream[s].status = "open"
        /\ stream[s].at_connect.clusters = 0
        /\ Pushed(s, "clusters")
        /\ Answers(sent[s]) = 0
        /\ reporter.route_configurations = None
        /\ stream[s].item = RequestItem(TypeRouteConfiguration, Empty, FALSE)

(***************************************************************************)
(* Properties of the catch-up loop.                                        *)
(***************************************************************************)
\* C39: for every interval the parser accepts, every iteration the catch-up
\* loop is about to run moves the next tick forward, so that the loop ends
\* after finitely many of them, and once the loop is left the next tick is
\* strictly after the wake-up time.
C39_CatchUpTerminates ==
    \A i \in Upstreams :
        /\ (unfold[i].pc = "catchup" /\ unfold[i].instant <= unfold[i].polled)
              => \A d \in JitterOf(i) : unfold[i].instant + d > unfold[i].instant
        /\ unfold[i].pc \in {"lookup", "probe"} => unfold[i].instant > unfold[i].polled

(***************************************************************************)
(* Properties of backend::watch of the mux proxy.                          *)
(***************************************************************************)
\* C36: the list the readers find for an upstream changes only in the step
\* that ends a polling cycle of that upstream, after every probe of the cycle
\* has returned, and becomes the list that cycle built; a request that is
\* forwarded has picked its backend among the backends of these lists that
\* serve its model, whatever the watchers are in the middle of.
C36_ReadsOneFinishedCycle ==
    [][/\ \A i \in Upstreams :
             fleet'[i] # fleet[i]
             => /\ unfold[i].pc = "probe" /\ unfold[i].silent = {}
                /\ unfold'[i].pc = "sleep"
                /\ fleet'[i] = unfold[i].lookup[1]
       /\ (exchange.pc # "sent" /\ exchange'.pc = "sent")
             => /\ exchange'.found = Serving(backends(fleet), 1)
                /\ \E k \in 1..Len(exchange'.found) :
                      exchange'.backend = Some(exchange'.found[k])]_vars

\* a request was forwarded to a backend of the list of upstream 0 while the
\* next cycle of upstream 0, one probe returned and one not, is building
\* another list
C36_Witness ==
    /\ exchange.pc = "sent"
    /\ exchange.backend # None
    /\ exchange.backend[1].config = 0
    /\ exchange.found = Serving(backends(fleet), 1)
    /\ unfold[0].pc = "probe"
    /\ unfold[0].silent # {}
    /\ unfold[0].lookup[1] # fleet[0]
    /\ \E k \in 1..Len(unfold[0].lookup[1]) : unfold[0].lookup[1][k].models # <<>>

(***************************************************************************)
(* Properties of the single-upstream vLLM control plane.                   *)
(***************************************************************************)
\* the sum of the values of the samples of a name, absent without a sample
RECURSIVE SumOf(_, _)
SumOf(samples, name) ==
    IF samples = <<>> THEN None
    ELSE LET rest == SumOf(Tail(samples), name)
         IN  IF Head(samples).metricname = name
             THEN Some(Head(samples).number + unwrap_or_default(rest))
             ELSE rest

\* the cycle emitted the list with the exact sums of the body on every model
EmitsSums(models, body) ==
    /\ unfold'[0].pc = "sleep"
    /\ 0 \in DOMAIN state'
    /\ state'[0] = Attach(models, SumOf(body, RunningName), SumOf(body, WaitingName))
    /\ \A k \in 1..Len(models) :
          /\ state'[0][k].running = SumOf(body, RunningName)
          /\ state'[0][k].pending = SumOf(body, WaitingName)

\* every value is an integer an f64 holds exactly, and both sums fit a u64
Exact(body) ==
    /\ \A k \in 1..Len(body) : body[k].number <= Pow2(MantissaBits)
    /\ unwrap_or_default(SumOf(body, RunningName)) <= MaxU64
    /\ unwrap_or_default(SumOf(body, WaitingName)) <= MaxU64

\* C33 as stated: for a body of samples with non-negative integer values, a
\* cycle whose two fetches succeed emits the list with running the sum of the
\* vllm:num_requests_running samples and pending the sum of the
\* vllm:num_requests_waiting samples (absent without a sample) on every model.
C33_SumsAttached ==
    [][\A body \in Bodies : \A checks \in BOOLEAN :
          JoinVllm(Some(Served(0, 2)), Some(body), checks)
              => EmitsSums(Served(0, 2), body)]_vars

\* C33 amended: the same, for a body whose values are integers an f64 holds
\* exactly (at most 2^53) and whose two sums are at most u64::MAX.
C33_ExactSumsAttached ==
    [][\A body \in Bodies : \A checks \in BOOLEAN :
          Exact(body) /\ JoinVllm(Some(Served(0, 2)), Some(body), checks)
              => EmitsSums(Served(0, 2), body)]_vars

\* a list of two models was emitted with running the sum of two samples and
\* pending absent
C33_Witness ==
    /\ 0 \in DOMAIN state
    /\ Len(state[0]) = 2
    /\ \A k \in 1..2 : state[0][k].running = Some(2) /\ state[0][k].pending = None

\* C40: a cycle in which the fetch of the models or of the metrics fails
\* changes neither what the Reporter holds, nor the versions minted, nor
\* what a stream has sent or has ready; the Reporter's value changes only in
\* a cycle whose two fetches succeed, and the route configuration it holds
\* is the one of the list the last such cycle emitted.
C40_FailedCycleEmitsNothing ==
    /\ [](0 \in DOMAIN state
            => /\ reporter.route_configurations # None
               /\ reporter.route_configurations[1].resources
                     = <<route_configuration_vllm(state[0])>>)
    /\ [][/\ \A models \in {None} \cup {Some(Served(0, ip)) : ip \in Records(0)} :
               \A body \in {None, Some(<<[metricname |-> WaitingName, number |-> 1]>>)} :
                  ((models = None \/ body = None) /\ JoinVllm(models, body, TRUE))
                  => /\ reporter' = reporter /\ uuid' = uuid /\ state' = state
                     /\ sent' = sent /\ stream' = stream
                     /\ \A s \in Streams : \A ch \in Channels : Ready(s, ch)' = Ready(s, ch)
          /\ reporter' # reporter
               => /\ unfold[0].pc = "lookup" /\ unfold'[0].pc = "sleep"
                  /\ unfold'[0].lookup # None
                  /\ state'[0] = unfold'[0].lookup[1]]_vars

\* a cycle after the first has just ended with an Err while the Reporter
\* holds the route configuration of an earlier cycle, which the open stream
\* was sent and nothing after it
C40_Witness ==
    /\ unfold[0].pc = "sleep" /\ unfold[0].polled > 0 /\ unfold[0].lookup = None
    /\ 0 \in DOMAIN state
    /\ reporter.route_configurations # None
    /\ \E s \in Streams :
          /\ stream[s].status = "open"
          /\ sent[s] # <<>>
          /\ Last(sent[s]).version_info = VersionOf(reporter.route_configurations)
          /\ ~Ready(s, "route_configurations")

====
